---- MODULE Spec2Model ----
(***************************************************************************)
(* Model of the warehouse-routing analytics core (src/tools.py).           *)
(*                                                                         *)
(* Strings are sequences of one-character strings, so that upper(),        *)
(* strip(), split('-') and substring containment are computed, not assumed.*)
(* Money is kept exactly: a $/lb rate is an integer number of 1e-4 $, a    *)
(* transport multiplier an integer number of hundredths, a weight an       *)
(* integer number of pounds; round(x, 2) is round-half-even to cents.      *)
(***************************************************************************)
EXTENDS Integers, Sequences, FiniteSets, TLC

VARIABLES call, result, freight, sales, cache, now, GOOGLE_MAPS_API_KEY,
          conversation_history, frame

\* The data files, the module state of src/google_maps.py with its clock, and
\* the chat session of src/prophet.py: the history of AlphaProphetCLI and the
\* locals and position of a running chat().
files == <<freight, sales>>
maps == <<cache, now, GOOGLE_MAPS_API_KEY>>
session == <<conversation_history, frame>>

vars == <<call, result, files, maps, session>>

(***************************************************************************)
(* Bounds of the model.                                                    *)
(***************************************************************************)
MaxRows == 2
MaxWeight == 4
MaxPalletTenths == 3
MaxClock == 3600

None == [none |-> TRUE]

\* The element of a one-element set.  Only({ e(x) : x \in {v} }) is e(v) with
\* v computed once and then held, as after the assignment x = v.
Only(S) == CHOOSE r \in S : TRUE

(***************************************************************************)
(* str primitives                                                          *)
(***************************************************************************)
LowerLetters == <<"a","b","c","d","e","f","g","h","i","j","k","l","m",
                  "n","o","p","q","r","s","t","u","v","w","x","y","z">>
UpperLetters == <<"A","B","C","D","E","F","G","H","I","J","K","L","M",
                  "N","O","P","Q","R","S","T","U","V","W","X","Y","Z">>
Whitespace == {" ", "\t", "\n"}

UpperChar(c) ==
    IF \E i \in 1..26 : LowerLetters[i] = c
    THEN UpperLetters[CHOOSE i \in 1..26 : LowerLetters[i] = c]
    ELSE c

LowerChar(c) ==
    IF \E i \in 1..26 : UpperLetters[i] = c
    THEN LowerLetters[CHOOSE i \in 1..26 : UpperLetters[i] = c]
    ELSE c

\* str.upper()
Upper(s) == Only({ [i \in 1..Len(t) |-> UpperChar(t[i])] : t \in {s} })

\* str.lower()
Lower(s) == Only({ [i \in 1..Len(t) |-> LowerChar(t[i])] : t \in {s} })

\* str.strip()
Strip(s) ==
    Only({ LET keep == {i \in 1..Len(t) : t[i] \notin Whitespace}
           IN  IF keep = {} THEN <<>>
               ELSE LET lo == CHOOSE i \in keep : \A j \in keep : i <= j
                        hi == CHOOSE i \in keep : \A j \in keep : j <= i
                    IN  SubSeq(t, lo, hi)
           : t \in {s} })

\* `sub in s`
Contains(s, sub) ==
    \E t \in {s}, u \in {sub} :
        \E i \in 0..(Len(t) - Len(u)) :
            \A j \in 1..Len(u) : t[i + j] = u[j]

\* str.title(): a letter is upper-cased after a non-letter, lower-cased after
\* a letter.
IsLetter(c) == \E i \in 1..26 : LowerLetters[i] = c \/ UpperLetters[i] = c
Title(s) ==
    Only({ [i \in 1..Len(t) |->
              IF i = 1 \/ ~IsLetter(t[i - 1]) THEN UpperChar(t[i]) ELSE LowerChar(t[i])]
           : t \in {s} })

\* The three warehouse identifiers.
Houston == <<"H","o","u","s","t","o","n">>
WestMemphis == <<"W","e","s","t"," ","M","e","m","p","h","i","s">>
California == <<"C","a","l","i","f","o","r","n","i","a">>
Warehouses == <<Houston, WestMemphis, California>>

(***************************************************************************)
(* Routing Engine: get_warehouse_for_state                                 *)
(***************************************************************************)
CALIFORNIA_STATES ==
    { <<"C","A","L","I","F","O","R","N","I","A">>, <<"O","R","E","G","O","N">>,
      <<"W","A","S","H","I","N","G","T","O","N">>, <<"I","D","A","H","O">>,
      <<"C","A">>, <<"O","R">>, <<"W","A">>, <<"I","D">> }

HOUSTON_STATES == { <<"T","E","X","A","S">>, <<"T","X">> }

get_warehouse_for_state_nostrip(state) ==
    LET state_upper == Upper(state)
    IN  IF state_upper \in CALIFORNIA_STATES THEN California
        ELSE IF state_upper \in HOUSTON_STATES THEN Houston
        ELSE WestMemphis

get_warehouse_for_state(state) ==
    LET state_upper == Strip(Upper(state))
    IN  IF state_upper \in CALIFORNIA_STATES THEN California
        ELSE IF state_upper \in HOUSTON_STATES THEN Houston
        ELSE WestMemphis

\* Inputs: a base spelling, re-cased and padded with whitespace.
OtherStateTexts ==
    { <<"O","H","I","O">>, <<"O","H">>, <<"N","E","W"," ","Y","O","R","K">>,
      <<"N","Y">>, <<"T","E","X","A">>, <<"T"," ","X">>, <<"C","A","L">>,
      <<"T","X","X">>, <<"N","E","V","A","D","A">>, <<>> }

StateTexts == CALIFORNIA_STATES \cup HOUSTON_STATES \cup OtherStateTexts

TitleCase(s) == [i \in 1..Len(s) |-> IF i = 1 THEN UpperChar(s[i]) ELSE LowerChar(s[i])]
SwapCase(s)  == [i \in 1..Len(s) |-> IF i = 1 THEN LowerChar(s[i]) ELSE UpperChar(s[i])]
Casings(s) == { Upper(s), Lower(s), TitleCase(s), SwapCase(s) }

LeftPads  == { <<>>, <<" ">>, <<"\t"," ">> }
RightPads == { <<>>, <<" ">>, <<" ","\n">> }

Variants(S) ==
    { l \o c \o r : l \in LeftPads, r \in RightPads,
                    c \in UNION { Casings(b) : b \in S } }

StateInputs == Variants(StateTexts)

\* src/google_maps.py as imported: an empty cache; the key is the one the
\* environment had at import, kept here as unset wherever it is not used.
InitMaps ==
    /\ cache = <<>>
    /\ now = 0
    /\ GOOGLE_MAPS_API_KEY = ""

\* No chat() is running.
NoFrame == [pc |-> "idle"]

\* AlphaProphetCLI.__init__: an empty history.
InitSession ==
    /\ conversation_history = <<>>
    /\ frame = NoFrame

\* The caller consumes the response; the next request starts from idle.
Return ==
    /\ call.op # "none"
    /\ frame.pc \in {"idle", "done"}
    /\ call' = [op |-> "none"]
    /\ result' = None
    /\ frame' = NoFrame
    /\ UNCHANGED <<files, maps, conversation_history>>

WarehouseForState ==
    \E s \in StateInputs :
        /\ call.op = "none"
        /\ call' = [op |-> "get_warehouse_for_state", state |-> s]
        /\ result' = [warehouse |-> get_warehouse_for_state(s)]
        /\ UNCHANGED <<files, maps, session>>

InitRouting ==
    /\ call = [op |-> "none"]
    /\ result = None
    /\ InitMaps
    /\ InitSession
    /\ freight = <<>>
    /\ sales = <<>>

NextRouting == WarehouseForState \/ Return

SpecRouting == InitRouting /\ [][NextRouting]_vars

\* C1: get_warehouse_for_state returns California for the California group
\* (full name or abbreviation), Houston for Texas/TX and West Memphis for
\* every other string, whatever the letter case and surrounding whitespace.
RoutingTotalAndCaseInsensitive ==
    call.op = "get_warehouse_for_state" =>
        /\ call.state \in Variants(CALIFORNIA_STATES) => result.warehouse = California
        /\ call.state \in Variants(HOUSTON_STATES) => result.warehouse = Houston
        /\ call.state \notin Variants(CALIFORNIA_STATES \cup HOUSTON_STATES)
               => result.warehouse = WestMemphis

\* A padded, lower-case abbreviation of the California group was routed.
RoutingPaddedLowerCaseSeen ==
    /\ call.op = "get_warehouse_for_state"
    /\ call.state = <<"\t", " ", "o", "r", " ">>
    /\ result.warehouse = California

(***************************************************************************)
(* Cost Estimation Engine                                                  *)
(***************************************************************************)
DefaultKey == <<"d","e","f","a","u","l","t">>

\* $/lb in units of 1e-4 $.
COST_RATES ==
    Houston :> (
        <<"T","X">> :> 277 @@ <<"A","R">> :> 344 @@ <<"L","A">> :> 450 @@ <<"O","K">> :> 550 @@
        <<"M","O">> :> 677 @@ <<"N","E">> :> 713 @@ <<"K","S">> :> 650 @@ <<"V","A">> :> 1184 @@
        <<"M","A">> :> 1390 @@ <<"N","Y">> :> 1712 @@ <<"P","A">> :> 1100 @@ <<"N","C">> :> 1050 @@
        <<"G","A">> :> 950 @@ <<"F","L">> :> 1100 @@ DefaultKey :> 850 )
    @@ WestMemphis :> (
        <<"T","N">> :> 350 @@ <<"A","R">> :> 375 @@ <<"M","S">> :> 400 @@ <<"A","L">> :> 375 @@
        <<"K","Y">> :> 450 @@ <<"I","N">> :> 524 @@ <<"O","H">> :> 673 @@ <<"W","I">> :> 706 @@
        <<"I","L">> :> 773 @@ <<"M","O">> :> 550 @@ <<"N","C">> :> 800 @@ <<"V","A">> :> 836 @@
        <<"G","A">> :> 750 @@ <<"F","L">> :> 900 @@ <<"M","N">> :> 970 @@ <<"P","A">> :> 1001 @@
        <<"T","X">> :> 1042 @@ <<"N","Y">> :> 1100 @@ <<"N","J">> :> 1050 @@ DefaultKey :> 963 )
    @@ California :> (
        <<"C","A">> :> 247 @@ <<"N","V">> :> 450 @@ <<"A","Z">> :> 645 @@ <<"O","R">> :> 850 @@
        <<"W","A">> :> 900 @@ <<"U","T">> :> 909 @@ <<"C","O">> :> 1000 @@ <<"I","D">> :> 1368 @@
        <<"T","X">> :> 1520 @@ <<"N","C">> :> 1611 @@ <<"I","L">> :> 1669 @@ <<"F","L">> :> 1720 @@
        <<"V","A">> :> 1650 @@ <<"N","Y">> :> 1750 @@ <<"P","A">> :> 1700 @@ <<"G","A">> :> 1600 @@
        DefaultKey :> 1200 )

STATE_ABBREV ==
    <<"A","L","A","B","A","M","A">> :> <<"A","L">> @@ <<"A","L","A","S","K","A">> :> <<"A","K">> @@
    <<"A","R","I","Z","O","N","A">> :> <<"A","Z">> @@ <<"A","R","K","A","N","S","A","S">> :> <<"A","R">> @@
    <<"C","A","L","I","F","O","R","N","I","A">> :> <<"C","A">> @@ <<"C","O","L","O","R","A","D","O">> :> <<"C","O">> @@
    <<"C","O","N","N","E","C","T","I","C","U","T">> :> <<"C","T">> @@ <<"D","E","L","A","W","A","R","E">> :> <<"D","E">> @@
    <<"F","L","O","R","I","D","A">> :> <<"F","L">> @@ <<"G","E","O","R","G","I","A">> :> <<"G","A">> @@
    <<"H","A","W","A","I","I">> :> <<"H","I">> @@ <<"I","D","A","H","O">> :> <<"I","D">> @@
    <<"I","L","L","I","N","O","I","S">> :> <<"I","L">> @@ <<"I","N","D","I","A","N","A">> :> <<"I","N">> @@
    <<"I","O","W","A">> :> <<"I","A">> @@ <<"K","A","N","S","A","S">> :> <<"K","S">> @@
    <<"K","E","N","T","U","C","K","Y">> :> <<"K","Y">> @@ <<"L","O","U","I","S","I","A","N","A">> :> <<"L","A">> @@
    <<"M","A","I","N","E">> :> <<"M","E">> @@ <<"M","A","R","Y","L","A","N","D">> :> <<"M","D">> @@
    <<"M","A","S","S","A","C","H","U","S","E","T","T","S">> :> <<"M","A">> @@ <<"M","I","C","H","I","G","A","N">> :> <<"M","I">> @@
    <<"M","I","N","N","E","S","O","T","A">> :> <<"M","N">> @@ <<"M","I","S","S","I","S","S","I","P","P","I">> :> <<"M","S">> @@
    <<"M","I","S","S","O","U","R","I">> :> <<"M","O">> @@ <<"M","O","N","T","A","N","A">> :> <<"M","T">> @@
    <<"N","E","B","R","A","S","K","A">> :> <<"N","E">> @@ <<"N","E","V","A","D","A">> :> <<"N","V">> @@
    <<"N","E","W"," ","H","A","M","P","S","H","I","R","E">> :> <<"N","H">> @@ <<"N","E","W"," ","J","E","R","S","E","Y">> :> <<"N","J">> @@
    <<"N","E","W"," ","M","E","X","I","C","O">> :> <<"N","M">> @@ <<"N","E","W"," ","Y","O","R","K">> :> <<"N","Y">> @@
    <<"N","O","R","T","H"," ","C","A","R","O","L","I","N","A">> :> <<"N","C">> @@ <<"N","O","R","T","H"," ","D","A","K","O","T","A">> :> <<"N","D">> @@
    <<"O","H","I","O">> :> <<"O","H">> @@ <<"O","K","L","A","H","O","M","A">> :> <<"O","K">> @@
    <<"O","R","E","G","O","N">> :> <<"O","R">> @@ <<"P","E","N","N","S","Y","L","V","A","N","I","A">> :> <<"P","A">> @@
    <<"R","H","O","D","E"," ","I","S","L","A","N","D">> :> <<"R","I">> @@ <<"S","O","U","T","H"," ","C","A","R","O","L","I","N","A">> :> <<"S","C">> @@
    <<"S","O","U","T","H"," ","D","A","K","O","T","A">> :> <<"S","D">> @@ <<"T","E","N","N","E","S","S","E","E">> :> <<"T","N">> @@
    <<"T","E","X","A","S">> :> <<"T","X">> @@ <<"U","T","A","H">> :> <<"U","T">> @@
    <<"V","E","R","M","O","N","T">> :> <<"V","T">> @@ <<"V","I","R","G","I","N","I","A">> :> <<"V","A">> @@
    <<"W","A","S","H","I","N","G","T","O","N">> :> <<"W","A">> @@ <<"W","E","S","T"," ","V","I","R","G","I","N","I","A">> :> <<"W","V">> @@
    <<"W","I","S","C","O","N","S","I","N">> :> <<"W","I">> @@ <<"W","Y","O","M","I","N","G">> :> <<"W","Y">>

TRANSPORT_MODIFIERS ==
    <<"C","l","o","s","e","d">> :> 89 @@ <<"F","l","a","t","b","e","d">> :> 100 @@ <<"L","T","L">> :> 168 @@ <<"H","o","t"," ","S","h","o","t">> :> 387

LBS_PER_PALLET == 920

\* overall_avg_rate = 0.0925 $/lb, in units of 1e-6 $.
overall_avg_rate == 92500

\* round(n / d, 0) for d > 0: to nearest, ties to even.
RoundHalfEven(n, d) ==
    LET q == n \div d
        r == n % d
    IN  IF 2 * r < d THEN q
        ELSE IF 2 * r > d THEN q + 1
        ELSE IF q % 2 = 0 THEN q ELSE q + 1

Abs(n) == IF n < 0 THEN -n ELSE n

\* dict.get(key, default)
Get(d, key, default) == IF key \in DOMAIN d THEN d[key] ELSE default

\* s[:n]
Prefix(s, n) == SubSeq(s, 1, IF Len(s) < n THEN Len(s) ELSE n)

normalize_state(state) ==
    LET state_upper == Strip(Upper(state))
    IN  IF Len(state_upper) = 2 THEN state_upper
        ELSE Get(STATE_ABBREV, state_upper, Prefix(state_upper, 2))

get_cost_rate_shared_default(warehouse, state) ==
    LET state_abbr == normalize_state(state)
        warehouse_rates == Get(COST_RATES, warehouse, COST_RATES[WestMemphis])
    IN  Get(warehouse_rates, state_abbr, COST_RATES[WestMemphis][DefaultKey])

get_cost_rate(warehouse, state) ==
    LET state_abbr == normalize_state(state)
        warehouse_rates == Get(COST_RATES, warehouse, COST_RATES[WestMemphis])
    IN  Get(warehouse_rates, state_abbr, warehouse_rates[DefaultKey])

warehouse_map ==
    <<"h","o","u","s","t","o","n">> :> Houston @@ <<"w","e","s","t"," ","m","e","m","p","h","i","s">> :> WestMemphis @@
    <<"w","m">> :> WestMemphis @@ <<"c","a","l","i","f","o","r","n","i","a">> :> California @@
    <<"s","t","o","c","k","t","o","n">> :> California @@ <<"c","a">> :> California

MustProvide == "Must provide either weight_lbs or pallets"

\* An optional number is <<>> (None) or <<n>>; an optional string is the
\* string, <<>> standing for both None and '' (the code tests truthiness).
\* pallets are counted in tenths of a pallet.
PalletsToWeight_unconverted(pallets) == pallets \div 10

PalletsToWeight(pallets) == (pallets * LBS_PER_PALLET) \div 10

\* round(weight_lbs * adjusted_rate, 2), in cents; adjusted_rate in 1e-6 $/lb.
total_cost_min_charge(weight_lbs, adjusted_rate) ==
    LET c == RoundHalfEven(weight_lbs * adjusted_rate, 10000)
    IN  IF c < 500 THEN 500 ELSE c

total_cost(weight_lbs, adjusted_rate) ==
    RoundHalfEven(weight_lbs * adjusted_rate, 10000)

EstimateBody(from_warehouse, to_state, weight_lbs, transport_type) ==
    LET state_abbr == normalize_state(to_state)
        warehouse == Get(warehouse_map, Lower(from_warehouse), from_warehouse)
        base_rate == get_cost_rate(warehouse, state_abbr)
        modifier == IF transport_type # <<>>
                    THEN Get(TRANSPORT_MODIFIERS, Title(transport_type), 100)
                    ELSE 100
        adjusted_rate == base_rate * modifier
        savings_vs_avg == (overall_avg_rate - adjusted_rate) * weight_lbs
    IN  [ estimate |->
            [ total_cost |-> total_cost(weight_lbs, adjusted_rate),
              cost_per_lb |-> RoundHalfEven(adjusted_rate, 100),
              cost_per_pallet |-> RoundHalfEven(LBS_PER_PALLET * adjusted_rate, 10000),
              weight_lbs |-> weight_lbs,
              pallets |-> RoundHalfEven(weight_lbs * 10, LBS_PER_PALLET) ],
          route |->
            [ from_warehouse |-> warehouse,
              to_state |-> state_abbr,
              transport_type |-> IF transport_type # <<>> THEN transport_type
                                 ELSE <<"S","t","a","n","d","a","r","d">> ],
          comparison |->
            [ vs_average |-> RoundHalfEven(Abs(savings_vs_avg), 10000),
              cheaper |-> savings_vs_avg > 0,
              pct_vs_average |->
                  RoundHalfEven(adjusted_rate * 1000 - overall_avg_rate * 1000,
                                overall_avg_rate) ],
          confidence |-> IF state_abbr \in DOMAIN Get(COST_RATES, warehouse, <<>>)
                         THEN "HIGH" ELSE "MEDIUM" ]

estimate_shipping_cost_zero_default(from_warehouse, to_state, weight_lbs, pallets, transport_type) ==
    IF pallets # <<>> /\ weight_lbs = <<>>
    THEN EstimateBody(from_warehouse, to_state, PalletsToWeight(pallets[1]), transport_type)
    ELSE IF weight_lbs = <<>> /\ pallets = <<>>
    THEN EstimateBody(from_warehouse, to_state, 0, transport_type)
    ELSE EstimateBody(from_warehouse, to_state, weight_lbs[1], transport_type)

estimate_shipping_cost(from_warehouse, to_state, weight_lbs, pallets, transport_type) ==
    IF pallets # <<>> /\ weight_lbs = <<>>
    THEN EstimateBody(from_warehouse, to_state, PalletsToWeight(pallets[1]), transport_type)
    ELSE IF weight_lbs = <<>> /\ pallets = <<>>
    THEN [error |-> MustProvide]
    ELSE EstimateBody(from_warehouse, to_state, weight_lbs[1], transport_type)

\* min(costs.items(), key=cost): the first warehouse, in insertion order, of
\* least cost; max likewise.
FirstMin(costs) ==
    CHOOSE i \in 1..3 :
        /\ \A j \in 1..3 : costs[i].cost <= costs[j].cost
        /\ \A j \in 1..(i - 1) : costs[j].cost # costs[i].cost

FirstMax(costs) ==
    CHOOSE i \in 1..3 :
        /\ \A j \in 1..3 : costs[i].cost >= costs[j].cost
        /\ \A j \in 1..(i - 1) : costs[j].cost # costs[i].cost

\* sorted(costs.items(), key=cost): stable.
SortedByCost(costs) ==
    CHOOSE p \in [1..3 -> 1..3] :
        /\ \A i, j \in 1..3 : i # j => p[i] # p[j]
        /\ \A i \in 1..2 :
              \/ costs[p[i]].cost < costs[p[i + 1]].cost
              \/ costs[p[i]].cost = costs[p[i + 1]].cost /\ p[i] < p[i + 1]

CompareBody(to_state, weight_lbs) ==
    LET state_abbr == normalize_state(to_state)
        costs == [ i \in 1..3 |->
                     LET rate == get_cost_rate(Warehouses[i], state_abbr)
                     IN  [ warehouse |-> Warehouses[i],
                           cost |-> RoundHalfEven(weight_lbs * rate, 100),
                           rate |-> rate,
                           cost_per_pallet |-> RoundHalfEven(LBS_PER_PALLET * rate, 100) ] ]
        cheapest == costs[FirstMin(costs)]
        most_expensive == costs[FirstMax(costs)]
        max_savings == most_expensive.cost - cheapest.cost
        recommended == get_warehouse_for_state(to_state)
        order == SortedByCost(costs)
    IN  [ destination |-> state_abbr,
          weight_lbs |-> weight_lbs,
          pallets |-> RoundHalfEven(weight_lbs * 10, LBS_PER_PALLET),
          cost_comparison |->
            [ k \in 1..3 |->
                [ warehouse |-> costs[order[k]].warehouse,
                  estimated_cost |-> costs[order[k]].cost,
                  cost_per_lb |-> costs[order[k]].rate,
                  cost_per_pallet |-> costs[order[k]].cost_per_pallet,
                  is_cheapest |-> costs[order[k]].warehouse = cheapest.warehouse,
                  is_recommended |-> costs[order[k]].warehouse = recommended ] ],
          recommendation |->
            [ cheapest_option |-> cheapest.warehouse,
              cheapest_cost |-> cheapest.cost,
              cheapest_per_pallet |-> cheapest.cost_per_pallet,
              model_recommended |-> recommended,
              model_recommended_cost |->
                  costs[CHOOSE i \in 1..3 : Warehouses[i] = recommended].cost,
              max_potential_savings |-> max_savings,
              savings_per_pallet |->
                  IF weight_lbs > 0
                  THEN RoundHalfEven(max_savings * LBS_PER_PALLET, weight_lbs)
                  ELSE 0,
              savings_pct |->
                  IF most_expensive.cost > 0
                  THEN RoundHalfEven(max_savings * 1000, most_expensive.cost)
                  ELSE 0 ] ]

compare_routing_cost(to_state, weight_lbs, pallets) ==
    IF pallets # <<>> /\ weight_lbs = <<>>
    THEN CompareBody(to_state, PalletsToWeight(pallets[1]))
    ELSE IF weight_lbs = <<>> /\ pallets = <<>>
    THEN [error |-> MustProvide]
    ELSE CompareBody(to_state, weight_lbs[1])

(***************************************************************************)
(* Cost engine: inputs, operations and specification                       *)
(***************************************************************************)
\* Every two-letter abbreviation of STATE_ABBREV, and an unknown one.
StateAbbreviations == { STATE_ABBREV[n] : n \in DOMAIN STATE_ABBREV } \cup { <<"Z","Z">> }

RateStateInputs == StateAbbreviations \cup { Lower(a) : a \in StateAbbreviations }

CostStateInputs ==
    { <<"T","X">>, <<"t","x">>, <<"T","e","x","a","s">>, <<"C","A">>, <<"O","R">>, <<"T","N">>, <<"Z","Z">>,
      <<" ","o","h"," ">>, <<"O","h","i","o">>, <<"P","u","e","r","t","o"," ","R","i","c","o">> }

WarehouseInputs ==
    { Houston, WestMemphis, California, <<"H","O","U","S","T","O","N">>, <<"w","m">>, <<"S","t","o","c","k","t","o","n">>,
      <<"c","a">>, <<"D","a","l","l","a","s">> }

TransportInputs ==
    { <<>>, <<"C","l","o","s","e","d">>, <<"c","l","o","s","e","d">>, <<"F","L","A","T","B","E","D">>, <<"L","T","L">>, <<"H","o","t"," ","S","h","o","t">>,
      <<"h","o","t"," ","s","h","o","t">>, <<"R","a","i","l">> }

\* Weights stay below 3000 lb so that weight x rate x multiplier, in 1e-6 $,
\* stays below 2^31.
WeightInputs == (0..MaxWeight) \cup {460, 920, 1380}
PalletInputs == (0..MaxPalletTenths) \cup {5, 10, 20}

\* (weight_lbs, pallets): either, neither, or both.
AmountInputs ==
    { <<(<<w>>), (<<>>)>> : w \in WeightInputs }
        \cup { <<(<<>>), (<<p>>)>> : p \in PalletInputs }
        \cup { <<(<<>>), (<<>>)>>, <<(<<920>>), (<<20>>)>> }

GetCostRate ==
    \E w \in {Houston, WestMemphis, California}, s \in RateStateInputs :
        /\ call.op = "none"
        /\ call' = [op |-> "get_cost_rate", warehouse |-> w, state |-> s]
        /\ result' = [rate |-> get_cost_rate(w, s)]
        /\ UNCHANGED <<files, maps, session>>

EstimateShippingCost ==
    \E w \in WarehouseInputs, s \in CostStateInputs, a \in AmountInputs,
       t \in TransportInputs :
        /\ call.op = "none"
        /\ call' = [op |-> "estimate_shipping_cost", from_warehouse |-> w,
                    to_state |-> s, weight_lbs |-> a[1], pallets |-> a[2],
                    transport_type |-> t]
        /\ result' = estimate_shipping_cost(w, s, a[1], a[2], t)
        /\ UNCHANGED <<files, maps, session>>

CompareRoutingCost ==
    \E s \in CostStateInputs, a \in AmountInputs :
        /\ call.op = "none"
        /\ call' = [op |-> "compare_routing_cost", to_state |-> s,
                    weight_lbs |-> a[1], pallets |-> a[2]]
        /\ result' = compare_routing_cost(s, a[1], a[2])
        /\ UNCHANGED <<files, maps, session>>

InitCost ==
    /\ call = [op |-> "none"]
    /\ result = None
    /\ InitMaps
    /\ InitSession
    /\ freight = <<>>
    /\ sales = <<>>

NextCost == GetCostRate \/ EstimateShippingCost \/ CompareRoutingCost \/ Return

SpecCost == InitCost /\ [][NextCost]_vars

\* The reference rate of a warehouse for a normalized abbreviation: the
\* state's own entry, else the warehouse's `default` entry.
OwnDefault(w) ==
    CASE w = Houston -> 850 [] w = WestMemphis -> 963 [] w = California -> 1200

ReferenceRate(w, abbr) ==
    IF abbr \in DOMAIN COST_RATES[w] THEN COST_RATES[w][abbr] ELSE OwnDefault(w)

\* C8: for each of the three warehouses, a state abbreviation absent from the
\* warehouse's table gets that warehouse's own default rate, a present one
\* gets its own rate.
CostRateFallsBackToOwnDefault ==
    call.op = "get_cost_rate" =>
        LET abbr == Upper(call.state)
        IN  IF \E k \in DOMAIN COST_RATES[call.warehouse] : k # DefaultKey /\ k = abbr
            THEN result.rate = COST_RATES[call.warehouse][abbr]
            ELSE result.rate = OwnDefault(call.warehouse)

\* California was asked for a state its table does not list.
CaliforniaDefaultRateSeen ==
    /\ call.op = "get_cost_rate"
    /\ call.warehouse = California
    /\ call.state = <<"o","h">>
    /\ result.rate = 1200

IsWeightCall ==
    /\ call.op = "estimate_shipping_cost"
    /\ call.weight_lbs # <<>>

IsPalletCall ==
    /\ call.op = "estimate_shipping_cost"
    /\ call.pallets # <<>>
    /\ call.weight_lbs = <<>>

EstimateAtWeight(w) ==
    estimate_shipping_cost(call.from_warehouse, call.to_state, <<w>>, <<>>,
                           call.transport_type)

\* C6 as stated: the total_cost reported for weight 2w is exactly twice the
\* total_cost reported for weight w.
DoublingWeightDoublesTotalCost ==
    IsWeightCall =>
        EstimateAtWeight(2 * call.weight_lbs[1]).estimate.total_cost
            = 2 * result.estimate.total_cost

\* C6 amended: the total_cost reported for weight 2w is within one cent of
\* twice the total_cost reported for weight w (each is rounded to cents).
DoublingWeightDoublesTotalCostToTheCent ==
    IsWeightCall =>
        Abs(EstimateAtWeight(2 * call.weight_lbs[1]).estimate.total_cost
                - 2 * result.estimate.total_cost) <= 1

\* A one-pound estimate whose doubled weight does not cost double.
DoublingOffByACentSeen ==
    /\ IsWeightCall
    /\ call.weight_lbs = <<1>>
    /\ result.estimate.total_cost = 2
    /\ EstimateAtWeight(2).estimate.total_cost = 5

\* C7: estimate_shipping_cost with pallets = P and no weight returns the
\* result of estimate_shipping_cost with weight_lbs = P * 920 and no pallets.
PalletsEqualWeightTimes920 ==
    IsPalletCall => result = EstimateAtWeight(call.pallets[1] * 92)

\* Half a pallet was estimated as 460 lb.
HalfPalletEstimateSeen ==
    /\ IsPalletCall
    /\ call.pallets = <<5>>
    /\ "estimate" \in DOMAIN result
    /\ result.estimate.weight_lbs = 460
    /\ result.estimate.total_cost > 0

\* C9 as stated: the cheapest_option of compare_routing_cost(state, pallets=P)
\* is a warehouse whose reference rate for the state's abbreviation is the
\* lowest of the three, for every P including 0.
CheapestOptionHasLowestRate ==
    ( /\ call.op = "compare_routing_cost"
      /\ call.pallets # <<>>
      /\ call.weight_lbs = <<>> ) =>
        \A i \in 1..3 :
            ReferenceRate(result.recommendation.cheapest_option, result.destination)
                <= ReferenceRate(Warehouses[i], result.destination)

\* C11: estimate_shipping_cost and compare_routing_cost return the error
\* object "Must provide either weight_lbs or pallets", and nothing else, when
\* called with neither weight_lbs nor pallets, and never return it when at
\* least one of the two is supplied.
MissingAmountIsTheOnlyInputError ==
    call.op \in {"estimate_shipping_cost", "compare_routing_cost"} =>
        IF call.weight_lbs = <<>> /\ call.pallets = <<>>
        THEN result = [error |-> MustProvide]
        ELSE "error" \notin DOMAIN result

\* An estimate was refused for want of an amount.
MissingAmountRefusedSeen ==
    /\ call.op = "estimate_shipping_cost"
    /\ call.weight_lbs = <<>>
    /\ call.pallets = <<>>
    /\ result = [error |-> MustProvide]

\* The rate table that supplies the base rate of a resolved warehouse name:
\* its own, or West Memphis' for a name COST_RATES does not have.
SupplyingTable(warehouse) == Get(COST_RATES, warehouse, COST_RATES[WestMemphis])

\* C12 as stated: for every from_warehouse, recognized or not, confidence is
\* HIGH exactly when the state's own key exists in the rate table that
\* supplied the base rate, and MEDIUM otherwise.
ConfidenceHighIffSpecificRateUsed ==
    (call.op = "estimate_shipping_cost" /\ "confidence" \in DOMAIN result) =>
        LET specific == result.route.to_state
                            \in DOMAIN SupplyingTable(result.route.from_warehouse)
        IN  /\ result.confidence \in {"HIGH", "MEDIUM"}
            /\ result.confidence = "HIGH" <=> specific

\* The multiplier C13 states for a transport type: the named type's, in
\* whatever letter case, else 1.0 (in hundredths).
StatedModifier(transport_type) ==
    IF \E k \in DOMAIN TRANSPORT_MODIFIERS : Upper(k) = Upper(transport_type)
    THEN TRANSPORT_MODIFIERS[CHOOSE k \in DOMAIN TRANSPORT_MODIFIERS :
                                Upper(k) = Upper(transport_type)]
    ELSE 100

\* C13 as stated: each named transport type, in whatever letter case, gives
\* cost_per_lb = base rate x its multiplier (0.89, 1.00, 1.68, 3.87); any other
\* transport type gives the base rate itself, and none gives an error.
NamedTransportTypeAppliesItsMultiplier ==
    (call.op = "estimate_shipping_cost"
        /\ ~(call.weight_lbs = <<>> /\ call.pallets = <<>>)) =>
        /\ "estimate" \in DOMAIN result
        /\ result.estimate.cost_per_lb =
              RoundHalfEven(get_cost_rate(result.route.from_warehouse,
                                          result.route.to_state)
                                * StatedModifier(call.transport_type), 100)

(***************************************************************************)
(* Tool Dispatch Facade: execute_tool                                      *)
(***************************************************************************)
\* tools_map: each tool's keyword parameters and those without a default.
Sig(params, required) == [params |-> params, required |-> required]

tools_map ==
    [ get_distribution |-> Sig({"product_name", "quantity", "customer_state"},
                               {"product_name", "quantity"}),
      analyze_state |-> Sig({"state"}, {"state"}),
      get_warehouse_info |-> Sig({"warehouse"}, {"warehouse"}),
      forecast_demand |-> Sig({"product_name", "months"}, {"product_name"}),
      get_backlog_summary |-> Sig({"group_by"}, {}),
      compare_routing |-> Sig({}, {}),
      recommend_east_coast_location |-> Sig({"top_n"}, {}),
      search_orders |-> Sig({"customer", "product", "state", "date_range", "limit"}, {}),
      search_freight |-> Sig({"warehouse", "date_range", "destination", "limit"}, {}),
      estimate_shipping_cost |-> Sig({"from_warehouse", "to_state", "weight_lbs",
                                      "pallets", "transport_type"},
                                     {"from_warehouse", "to_state"}),
      compare_routing_cost |-> Sig({"to_state", "weight_lbs", "pallets"}, {"to_state"}),
      analyze_cost_savings |-> Sig({"scenario"}, {}),
      google_maps |-> Sig({"destination", "weight_lbs"}, {"destination"}) ]

\* What running a tool does: it returns an object or raises an Exception.
Returns(value) == [kind |-> "return", value |-> value]
Raises(message) == [kind |-> "raise", message |-> message]

\* tools_map[tool_name](**tool_input): binding the keywords raises TypeError
\* before the body runs.
Invoke(tool_name, tool_input, body) ==
    LET sig == tools_map[tool_name]
    IN  IF sig.required \subseteq tool_input /\ tool_input \subseteq sig.params
        THEN body
        ELSE Raises(<<"TypeError", tool_name>>)

\* f"Unknown tool: {tool_name}"
UnknownTool(tool_name) == <<"Unknown tool: ", tool_name>>

Outcome(returned, escaped, invoked) ==
    [returned |-> returned, escaped |-> escaped, invoked |-> invoked]

execute_tool_uncaught(tool_name, tool_input, body) ==
    IF tool_name \notin DOMAIN tools_map
    THEN Outcome([error |-> UnknownTool(tool_name)], <<>>, FALSE)
    ELSE LET o == Invoke(tool_name, tool_input, body)
         IN  IF o.kind = "raise"
             THEN Outcome(<<>>, <<o.message>>, TRUE)
             ELSE Outcome(o.value, <<>>, TRUE)

execute_tool(tool_name, tool_input, body) ==
    IF tool_name \notin DOMAIN tools_map
    THEN Outcome([error |-> UnknownTool(tool_name)], <<>>, FALSE)
    ELSE LET o == Invoke(tool_name, tool_input, body)
         IN  IF o.kind = "raise"
             THEN Outcome([error |-> o.message], <<>>, TRUE)
             ELSE Outcome(o.value, <<>>, TRUE)

ToolNameInputs == DOMAIN tools_map \cup {"delete_orders", ""}

ToolInputInputs == SUBSET {"to_state", "pallets", "state", "bogus"}

BodyInputs ==
    { Returns([summary |-> "ok"]),
      Returns([error |-> "Could not load sales data"]),
      Raises("'Sell-to Name'"),
      Raises("division by zero") }

ExecuteTool ==
    \E n \in ToolNameInputs, a \in ToolInputInputs, b \in BodyInputs :
        /\ call.op = "none"
        /\ call' = [op |-> "execute_tool", tool_name |-> n, tool_input |-> a,
                    body |-> b]
        /\ result' = execute_tool(n, a, b)
        /\ UNCHANGED <<files, maps, session>>

InitTools ==
    /\ call = [op |-> "none"]
    /\ result = None
    /\ InitMaps
    /\ InitSession
    /\ freight = <<>>
    /\ sales = <<>>

NextTools == ExecuteTool \/ Return

SpecTools == InitTools /\ [][NextTools]_vars

\* The keywords bind to the tool's parameters.
Binds(tool_name, tool_input) ==
    /\ \A k \in tools_map[tool_name].required : k \in tool_input
    /\ \A k \in tool_input : k \in tools_map[tool_name].params

\* C2: execute_tool always returns an object and lets no exception escape; an
\* unknown name returns {"error": "Unknown tool: <name>"} without invoking a
\* tool, and an exception raised by the call (by a missing or unexpected
\* argument, or by the tool's body) is returned as {"error": <message>}.
ExecuteToolNeverRaises ==
    call.op = "execute_tool" =>
        /\ result.escaped = <<>>
        /\ result.returned # <<>>
        /\ call.tool_name \notin DOMAIN tools_map =>
              /\ result.returned = [error |-> <<"Unknown tool: ", call.tool_name>>]
              /\ ~result.invoked
        /\ call.tool_name \in DOMAIN tools_map =>
              IF ~Binds(call.tool_name, call.tool_input)
              THEN result.returned = [error |-> <<"TypeError", call.tool_name>>]
              ELSE IF call.body.kind = "raise"
              THEN result.returned = [error |-> call.body.message]
              ELSE result.returned = call.body.value

\* A known tool whose body raised had its exception turned into an error
\* object.
ToolExceptionReturnedSeen ==
    /\ call.op = "execute_tool"
    /\ call.tool_name = "compare_routing"
    /\ call.tool_input = {}
    /\ call.body = Raises("division by zero")
    /\ result.returned = [error |-> "division by zero"]
    /\ result.invoked

(***************************************************************************)
(* Dates: datetime, timedelta and strptime at the resolution of one day.   *)
(* A date is its proleptic Gregorian ordinal (date.toordinal()); an        *)
(* optional date is <<>> (None, NaT) or <<ordinal>>.                       *)
(***************************************************************************)
IsLeap(y) == (y % 4 = 0 /\ y % 100 # 0) \/ y % 400 = 0

DaysInMonth(y, m) ==
    IF m = 2 THEN (IF IsLeap(y) THEN 29 ELSE 28)
    ELSE IF m \in {4, 6, 9, 11} THEN 30 ELSE 31

DaysBeforeYear(y) ==
    365 * (y - 1) + ((y - 1) \div 4) - ((y - 1) \div 100) + ((y - 1) \div 400)

RECURSIVE DaysBeforeMonth(_, _)
DaysBeforeMonth(y, m) ==
    IF m = 1 THEN 0 ELSE DaysBeforeMonth(y, m - 1) + DaysInMonth(y, m - 1)

\* datetime(y, m, d).toordinal()
Ordinal(y, m, d) == DaysBeforeYear(y) + DaysBeforeMonth(y, m) + d

\* datetime(y, m, d) raises ValueError outside these ranges.
ValidDate(y, m, d) ==
    /\ y \in 1..9999
    /\ m \in 1..12
    /\ d \in 1..DaysInMonth(y, m)

\* The first and last day of a month:
\* datetime(y, m, 1) and datetime(y, m + 1, 1) - timedelta(days=1).
MonthRange(y, m) ==
    [start_date |-> Ordinal(y, m, 1), end_date |-> Ordinal(y, m, DaysInMonth(y, m))]

DayRange(d) == [start_date |-> d, end_date |-> d]

Digits == <<"0","1","2","3","4","5","6","7","8","9">>
IsDigit(c) == \E i \in 1..10 : Digits[i] = c
DigitVal(c) == (CHOOSE i \in 1..10 : Digits[i] = c) - 1

\* str.isdigit()
AllDigits(s) == \E t \in {s} : Len(t) > 0 /\ \A i \in 1..Len(t) : IsDigit(t[i])

RECURSIVE ToInt(_)
ToInt(s) ==
    Only({ IF t = <<>> THEN 0
           ELSE 10 * ToInt(SubSeq(t, 1, Len(t) - 1)) + DigitVal(t[Len(t)])
           : t \in {s} })

\* s.split(sep) for a one-character separator.
RECURSIVE Split(_, _)
Split(s, sep) ==
    Only({ IF \A i \in 1..Len(t) : t[i] # sep THEN <<t>>
           ELSE LET k == CHOOSE i \in 1..Len(t) :
                             t[i] = sep /\ \A j \in 1..(i - 1) : t[j] # sep
                IN  <<SubSeq(t, 1, k - 1)>> \o Split(SubSeq(t, k + 1, Len(t)), sep)
           : t \in {s} })

\* s.split(): the maximal runs of non-whitespace characters.
RECURSIVE Words(_)
Words(s) ==
    Only({ IF t = <<>> THEN <<>>
           ELSE IF \A i \in 1..Len(t) : t[i] \notin Whitespace THEN <<t>>
           ELSE LET k == CHOOSE i \in 1..Len(t) :
                             t[i] \in Whitespace
                             /\ \A j \in 1..(i - 1) : t[j] \notin Whitespace
                IN  <<SubSeq(t, 1, k - 1)>> \o Words(SubSeq(t, k + 1, Len(t)))
           : t \in {Strip(s)} })

\* datetime.strptime(s, fmt) for the formats built from %Y, %m, %d and one
\* separator; order gives the position of year, month and day among the
\* three fields.  <<>> stands for the ValueError.
strptime(s, sep, order) ==
    Only({ IF Len(f) # 3 THEN <<>>
           ELSE LET ys == f[order.y]
                    ms == f[order.m]
                    ds == f[order.d]
                IN  IF /\ AllDigits(ys) /\ Len(ys) = 4
                       /\ AllDigits(ms) /\ Len(ms) \in {1, 2}
                       /\ AllDigits(ds) /\ Len(ds) \in {1, 2}
                       /\ ValidDate(ToInt(ys), ToInt(ms), ToInt(ds))
                    THEN <<[y |-> ToInt(ys), m |-> ToInt(ms), d |-> ToInt(ds)]>>
                    ELSE <<>>
           : f \in {Split(s, sep)} })

Fmt_mdY_slash == [sep |-> "/", order |-> [m |-> 1, d |-> 2, y |-> 3]]
Fmt_Ymd_dash  == [sep |-> "-", order |-> [y |-> 1, m |-> 2, d |-> 3]]
Fmt_dmY_slash == [sep |-> "/", order |-> [d |-> 1, m |-> 2, y |-> 3]]
Fmt_mdY_dash  == [sep |-> "-", order |-> [m |-> 1, d |-> 2, y |-> 3]]

\* for fmt in date_formats: try strptime ... break
FirstFormat(s, formats) ==
    IF \A i \in 1..Len(formats) : strptime(s, formats[i].sep, formats[i].order) = <<>>
    THEN <<>>
    ELSE LET k == CHOOSE i \in 1..Len(formats) :
                      /\ strptime(s, formats[i].sep, formats[i].order) # <<>>
                      /\ \A j \in 1..(i - 1) :
                            strptime(s, formats[j].sep, formats[j].order) = <<>>
         IN  strptime(s, formats[k].sep, formats[k].order)

\* The 'YYYY-MM' branch: strptime(date_range + '-01', '%Y-%m-%d') and the
\* month it starts; <<>> when strptime raises.
YearMonthRange(date_range) ==
    LET p == strptime(date_range \o <<"-","0","1">>, "-", Fmt_Ymd_dash.order)
    IN  IF p = <<>> THEN <<>> ELSE <<MonthRange(p[1].y, p[1].m)>>

\* 'last_month': the month before today's.
LastMonthRange(today) ==
    IF today.m = 1 THEN MonthRange(today.y - 1, 12)
    ELSE MonthRange(today.y, today.m - 1)

SpecificDateRange(date_range, formats) ==
    LET p == FirstFormat(date_range, formats)
    IN  IF p = <<>> THEN <<>> ELSE <<DayRange(Ordinal(p[1].y, p[1].m, p[1].d))>>

\* month_names of search_freight, in the dict's order.
month_names ==
    << <<<<"j","a","n","u","a","r","y">>, 1>>,
       <<<<"f","e","b","r","u","a","r","y">>, 2>>,
       <<<<"m","a","r","c","h">>, 3>>,
       <<<<"a","p","r","i","l">>, 4>>,
       <<<<"m","a","y">>, 5>>,
       <<<<"j","u","n","e">>, 6>>,
       <<<<"j","u","l","y">>, 7>>,
       <<<<"a","u","g","u","s","t">>, 8>>,
       <<<<"s","e","p","t","e","m","b","e","r">>, 9>>,
       <<<<"o","c","t","o","b","e","r">>, 10>>,
       <<<<"n","o","v","e","m","b","e","r">>, 11>>,
       <<<<"d","e","c","e","m","b","e","r">>, 12>>,
       <<<<"j","a","n">>, 1>>,
       <<<<"f","e","b">>, 2>>,
       <<<<"m","a","r">>, 3>>,
       <<<<"a","p","r">>, 4>>,
       <<<<"j","u","n">>, 6>>,
       <<<<"j","u","l">>, 7>>,
       <<<<"a","u","g">>, 8>>,
       <<<<"s","e","p">>, 9>>,
       <<<<"s","e","p","t">>, 9>>,
       <<<<"o","c","t">>, 10>>,
       <<<<"n","o","v">>, 11>>,
       <<<<"d","e","c">>, 12>> >>

\* re.search(r'20\d{2}', s): the first match, as a number; <<>> when none.
YearMatch(s) ==
    Only({ LET hits == { i \in 1..(Len(t) - 3) :
                           /\ t[i] = "2" /\ t[i + 1] = "0"
                           /\ IsDigit(t[i + 2]) /\ IsDigit(t[i + 3]) }
           IN  IF hits = {} THEN <<>>
               ELSE LET k == CHOOSE i \in hits : \A j \in hits : i <= j
                    IN  <<ToInt(SubSeq(t, k, k + 3))>>
           : t \in {s} })

(***************************************************************************)
(* Search & Analytics Engine: search_freight                               *)
(*                                                                         *)
(* The freight table is a sequence of rows [warehouse, destination,        *)
(* ship_date, weight, cost]; a data frame derived from it is the set of    *)
(* the indices of its rows, in table order.                                *)
(***************************************************************************)
\* s[-n:]
Suffix(s, n) ==
    Only({ SubSeq(t, IF Len(t) < n THEN 1 ELSE Len(t) - n + 1, Len(t)) : t \in {s} })

\* '-'.join(s.split('-')[1:]): the text after the first hyphen.
AfterFirstHyphen(s) ==
    Only({ LET k == CHOOSE i \in 1..Len(t) :
                        t[i] = "-" /\ \A j \in 1..(i - 1) : t[j] # "-"
           IN  SubSeq(t, k + 1, Len(t))
           : t \in {s} })

\* s.replace(' ', '')
RECURSIVE RemoveSpaces(_)
RemoveSpaces(s) ==
    Only({ IF t = <<>> THEN <<>>
           ELSE IF t[1] = " " THEN RemoveSpaces(Tail(t))
           ELSE <<t[1]>> \o RemoveSpaces(Tail(t))
           : t \in {s} })

\* The derived columns of a freight row.
RowState(r) == Upper(Suffix(Strip(r.destination), 2))
RowCustomer(r) == Strip(Split(r.destination, "-")[1])
RowCityState(r) ==
    Only({ Strip(parts[Len(parts)]) : parts \in {Split(r.destination, "-")} })

RECURSIVE SumOver(_, _, _)
SumOver(table, df, field) ==
    IF df = {} THEN 0
    ELSE LET i == CHOOSE i \in df : TRUE
         IN  table[i][field] + SumOver(table, df \ {i}, field)

\* The rows of df whose column, upper-cased, contains the text.
DestinationContains(table, df, text) ==
    { i \in df : Contains(Upper(table[i].destination), text) }
CustomerContains(table, df, text) ==
    { i \in df : Contains(Upper(RowCustomer(table[i])), text) }
CityStateContains(table, df, text) ==
    { i \in df : Contains(Upper(RowCityState(table[i])), text) }

Matched(df, filters, notes) == [df |-> df, filters |-> filters, notes |-> notes]

\* customer_match['destination'].unique()[:5], each cut to its last 15
\* characters.
RECURSIVE UniqueDestinations(_, _, _)
UniqueDestinations(table, df, seen) ==
    IF df = {} THEN <<>>
    ELSE LET i == CHOOSE i \in df : \A j \in df : i <= j
         IN  IF table[i].destination \in seen
             THEN UniqueDestinations(table, df \ {i}, seen)
             ELSE <<table[i].destination>>
                     \o UniqueDestinations(table, df \ {i}, seen \cup {table[i].destination})

CustomerLocations(table, customer_match) ==
    Only({ [k \in 1..(IF Len(u) < 5 THEN Len(u) ELSE 5) |-> Suffix(u[k], 15)]
           : u \in {UniqueDestinations(table, customer_match, {})} })

\* The location-only fall-back searching the city column with the blanks
\* removed, as the customer branch does.
LocationFallback_city(table, df, search_customer, search_location) ==
    LET location_match == CityStateContains(table, df, RemoveSpaces(search_location))
    IN  IF location_match # {}
        THEN Matched(location_match,
                     << <<"location contains", search_location>> >>,
                     << <<"No customer found, showing all shipments to",
                          search_customer, search_location>> >>)
        ELSE Matched(df, <<>>, <<>>)

\* No customer matched: fall back to a location-only search.
LocationFallback(table, df, search_customer, search_location) ==
    LET location_match == DestinationContains(table, df, search_location)
    IN  IF location_match # {}
        THEN Matched(location_match,
                     << <<"location contains", search_location>> >>,
                     << <<"No customer found, showing all shipments to",
                          search_customer, search_location>> >>)
        ELSE Matched(df, <<>>, <<>>)

\* Strategy 2: "Customer-Location".
HyphenStrategy(table, df, destination, dest_upper) ==
    LET search_customer == Strip(Split(dest_upper, "-")[1])
        search_location == Strip(AfterFirstHyphen(dest_upper))
        exact_match == DestinationContains(table, df, dest_upper)
        customer_match == CustomerContains(table, df, search_customer)
        narrowed == CityStateContains(table, customer_match, RemoveSpaces(search_location))
    IN  IF exact_match # {}
        THEN Matched(exact_match, << <<"exact match", destination>> >>, <<>>)
        ELSE IF customer_match # {}
        THEN IF narrowed # {}
             THEN Matched(narrowed,
                          << <<"customer + location", search_customer, search_location>> >>,
                          <<>>)
             ELSE Matched(customer_match,
                          << <<"customer", search_customer>> >>,
                          << <<"Found shipments, but none to", Cardinality(customer_match),
                               search_customer, search_location>>,
                             <<"shipped to", search_customer,
                               CustomerLocations(table, customer_match)>> >>)
        ELSE LocationFallback(table, df, search_customer, search_location)

\* Strategy 6: the first word of three or more characters that some
\* destination contains.
PartialWordStrategy(table, df, destination, dest_upper) ==
    Only({ LET hits == { k \in 1..Len(words) :
                           /\ Len(words[k]) >= 3
                           /\ DestinationContains(table, df, words[k]) # {} }
           IN  IF hits = {} THEN Matched(df, <<>>, <<>>)
               ELSE LET k == CHOOSE k \in hits : \A j \in hits : k <= j
                    IN  Matched(DestinationContains(table, df, words[k]),
                                << <<"partial match", words[k]>> >>,
                                << <<"No exact match, found partial match on",
                                     destination, words[k]>> >>)
           : words \in {Words(dest_upper)} })

\* Strategies 3 to 6: customer, full destination, city, word by word.
NameStrategy(table, df, destination, dest_upper) ==
    LET customer_match == CustomerContains(table, df, dest_upper)
        dest_match == DestinationContains(table, df, dest_upper)
        city_match == CityStateContains(table, df, dest_upper)
    IN  IF customer_match # {}
        THEN Matched(customer_match, << <<"customer contains", destination>> >>, <<>>)
        ELSE IF dest_match # {}
        THEN Matched(dest_match, << <<"destination contains", destination>> >>, <<>>)
        ELSE IF city_match # {}
        THEN Matched(city_match, << <<"city contains", destination>> >>, <<>>)
        ELSE PartialWordStrategy(table, df, destination, dest_upper)

\* SMART DESTINATION SEARCH
DestinationSearch(table, df, destination) ==
    Only({ IF Len(dest_upper) = 2
           THEN Matched({ i \in df : RowState(table[i]) = dest_upper },
                        << <<"state =", dest_upper>> >>, <<>>)
           ELSE IF \E i \in 1..Len(dest_upper) : dest_upper[i] = "-"
           THEN HyphenStrategy(table, df, destination, dest_upper)
           ELSE NameStrategy(table, df, destination, dest_upper)
           : dest_upper \in {Strip(Upper(destination))} })

Dated(range, filters) == [range |-> range, filters |-> filters]

\* The month-name loop: the first name of month_names that date_lower
\* contains decides, and gives a range only if the text holds a year 20xx.
MonthNameRange(date_range, date_lower) ==
    LET hits == { k \in 1..Len(month_names) : Contains(date_lower, month_names[k][1]) }
    IN  IF hits = {} THEN <<>>
        ELSE LET k == CHOOSE k \in hits : \A j \in hits : k <= j
                 year == YearMatch(date_range)
             IN  IF year = <<>> THEN <<>>
                 ELSE <<MonthRange(year[1], month_names[k][2])>>

\* The date_range of search_freight: a named month with a year, last_month,
\* YYYY-MM, or one of three specific date formats; range <<>> when none fits.
FreightDateRange(date_range, today) ==
    Only({ LET named == MonthNameRange(date_range, date_lower)
               ym == YearMonthRange(date_range)
               specific == SpecificDateRange(date_range,
                                             <<Fmt_mdY_slash, Fmt_Ymd_dash, Fmt_dmY_slash>>)
           IN  IF named # <<>> THEN Dated(named, << <<"month name", date_range>> >>)
               ELSE IF date_lower = <<"l","a","s","t","_","m","o","n","t","h">>
               THEN Dated(<<LastMonthRange(today)>>, << <<"last month">> >>)
               ELSE IF /\ \E i \in 1..Len(date_range) : date_range[i] = "-"
                       /\ Len(date_range) = 7
               THEN (IF ym # <<>> THEN Dated(ym, << <<"month", date_range>> >>)
                     ELSE Dated(<<>>, <<>>))
               ELSE IF specific # <<>>
               THEN Dated(specific, << <<"date", specific[1].start_date>> >>)
               ELSE Dated(<<>>, <<>>)
           : date_lower \in {Strip(Lower(date_range))} })

\* df[(ship_date >= start_date) & (ship_date <= end_date)]; NaT compares false.
InDateRange(table, df, range) ==
    { i \in df : /\ table[i].ship_date # <<>>
                 /\ table[i].ship_date[1] >= range.start_date
                 /\ table[i].ship_date[1] <= range.end_date }

\* destination_matches_before_date['ship_date'].dropna()
ActualDates(table, df) ==
    { table[i].ship_date[1] : i \in { j \in df : table[j].ship_date # <<>> } }

\* min(actual_dates, key=lambda x: abs((x - search_date).days)) over the
\* sorted dates: the earliest of the nearest.
ClosestDate(dates, search_date) ==
    CHOOSE d \in dates :
        \A e \in dates :
            \/ Abs(d - search_date) < Abs(e - search_date)
            \/ Abs(d - search_date) = Abs(e - search_date) /\ d <= e

\* [f for f in filters_applied if 'date' not in f.lower()]
DropDateFilters(filters) == SelectSeq(filters, LAMBDA f : f[1] # "date")

\* The date filter and the expansion back to the destination matches.
\* dest_matches is <<>> (None) or <<frame>>.
FilterByDate(table, m, dest_matches, range) ==
    LET dated == InDateRange(table, m.df, range)
        actual_dates == ActualDates(table, dest_matches[1])
    IN  IF dated = {} /\ dest_matches # <<>> /\ dest_matches[1] # {} /\ actual_dates # {}
        THEN Matched(dest_matches[1],
                     DropDateFilters(m.filters)
                         \o << <<"Expanded search (no results for)", range.start_date>> >>,
                     m.notes \o
                       << <<"No shipments on", range.start_date>>,
                          <<"But found shipments to this destination on other dates",
                            Cardinality(dest_matches[1])>>,
                          <<"Closest date:", ClosestDate(actual_dates, range.start_date)>> >>)
        ELSE Matched(dated, m.filters, m.notes)

\* The destinations sharing a word of three or more characters with the
\* query; list(set(suggestions))[:5] keeps any five of them.
Suggestions(table, destination) ==
    Only({ LET all == { table[i].destination : i \in 1..Len(table) }
               similar == { d \in all : \E k \in 1..Len(words) :
                                           /\ Len(words[k]) >= 3
                                           /\ Contains(Upper(d), words[k]) }
           IN  IF Cardinality(similar) <= 5 THEN similar
               ELSE CHOOSE S \in SUBSET similar : Cardinality(S) = 5
           : words \in {Words(Upper(destination))} })

NoShipments == "No shipments found matching criteria"

\* Filter by warehouse.
WarehouseFilter(table, warehouse) ==
    IF Lower(warehouse) # <<"a","l","l">>
    THEN Matched({ i \in 1..Len(table) :
                     Contains(Lower(table[i].warehouse), Lower(warehouse)) },
                 << <<"warehouse =", warehouse>> >>, <<>>)
    ELSE Matched(1..Len(table), <<>>, <<>>)

\* if destination: the smart destination search, its filters appended.
DestinationFilter(table, by_warehouse, destination) ==
    IF destination # <<>>
    THEN Only({ Matched(found.df, by_warehouse.filters \o found.filters, found.notes)
                : found \in {DestinationSearch(table, by_warehouse.df, destination)} })
    ELSE by_warehouse

\* if date_range: parse it, filter, and expand when nothing is left.
DateFilter(table, by_destination, destination, date_range, today) ==
    IF date_range = <<>> THEN by_destination
    ELSE Only({ LET with_date == Matched(by_destination.df,
                                         by_destination.filters \o parsed.filters,
                                         by_destination.notes)
                IN  IF parsed.range # <<>>
                    THEN FilterByDate(table, with_date,
                                      IF destination # <<>> THEN <<by_destination.df>>
                                      ELSE <<>>,
                                      parsed.range[1])
                    ELSE with_date
                : parsed \in {FreightDateRange(date_range, today)} })

\* The response: the zero-result message with suggestions, or the summary.
\* df and destination_matches_before_date are the function's locals of those
\* names at the return.
Response(table, destination, by_destination, final) ==
    LET destination_matches_before_date ==
            IF destination # <<>> THEN <<by_destination.df>> ELSE <<>>
    IN  IF final.df = {}
        THEN [ filters |-> final.filters,
               total_shipments |-> 0,
               message |-> NoShipments,
               suggestions |-> IF destination # <<>> THEN Suggestions(table, destination)
                               ELSE {},
               smart_notes |-> final.notes,
               df |-> final.df,
               destination_matches_before_date |-> destination_matches_before_date ]
        ELSE [ filters_applied |-> final.filters,
               summary |-> [ total_shipments |-> Cardinality(final.df),
                             total_weight_lbs |-> SumOver(table, final.df, "weight"),
                             total_cost |-> SumOver(table, final.df, "cost") ],
               smart_notes |-> final.notes,
               df |-> final.df,
               destination_matches_before_date |-> destination_matches_before_date ]

search_freight(table, warehouse, date_range, destination, today) ==
    IF table = <<>> THEN [error |-> "Could not load freight data"]
    ELSE Only({ Only({ Response(table, destination, by_destination, final)
                       : final \in {DateFilter(table, by_destination, destination,
                                               date_range, today)} })
                : by_destination \in
                    { DestinationFilter(table, by_warehouse, destination)
                      : by_warehouse \in {WarehouseFilter(table, warehouse)} } })

(***************************************************************************)
(* search_freight: inputs, operation and specification                     *)
(***************************************************************************)
FreightRow(warehouse, destination, ship_date, weight, cost) ==
    [ warehouse |-> warehouse, destination |-> destination, ship_date |-> ship_date,
      weight |-> weight, cost |-> cost ]

\* The rows the freight files may hold; cost in cents, an unparseable
\* 'Date Shipped' is <<>> (NaT).
FreightRowPool ==
    << FreightRow(Houston, <<"A","C","M","E","-","D","A","L","L","A","S"," ","T","X">>,
                  <<Ordinal(2025, 6, 10)>>, 1000, 5000),
       FreightRow(WestMemphis, <<"A","c","m","e","-","A","s","h","l","a","n","d"," ","V","A">>,
                  <<Ordinal(2025, 3, 5)>>, 2000, 12000),
       FreightRow(WestMemphis, <<"B","O","L","T","-","D","A","L","L","A","S"," ","T","X">>,
                  <<>>, 500, 0),
       FreightRow(California, <<"W","A","L","-","M","A","R","T","-","R","E","N","O"," ","N","V">>,
                  <<Ordinal(2025, 6, 20)>>, 3000, 9000),
       FreightRow(Houston, <<"Z","E","T","A","-","R","E","N","O"," ","N","V">>,
                  <<Ordinal(2025, 7, 1)>>, 800, 4000) >>

\* The rows of pool with index in S, in pool order.
RECURSIVE Pick(_, _)
Pick(pool, S) ==
    IF S = {} THEN <<>>
    ELSE LET i == CHOOSE i \in S : \A j \in S : i <= j
         IN  <<pool[i]>> \o Pick(pool, S \ {i})

\* What load_freight_data("all") returns: up to MaxRows rows, or nothing when
\* no file can be read.
FreightTables ==
    { Pick(FreightRowPool, S) :
        S \in { T \in SUBSET (1..Len(FreightRowPool)) : Cardinality(T) <= MaxRows } }

DestinationInputs ==
    { <<>>,
      <<"T","X">>,
      <<"z","z">>,
      <<"A","C","M","E","-","D","A","L","L","A","S"," ","T","X">>,
      <<"A","C","M","E","-","R","E","N","O"," ","N","V">>,
      <<"N","O","P","E","-","R","E","N","O"," ","N","V">>,
      <<"M","A","R","T","-","R","E","N","O"," ","N","V">>,
      <<"N","O","P","E","-","P","A","R","I","S"," ","F","R">>,
      <<"a","c","m","e">>,
      <<"D","A","L","L","A","S">>,
      <<"P","A","R","I","S">>,
      <<"B","I","G"," ","R","E","N","O">>,
      <<"B","O","L","T">>,
      <<"a","c","-","D","a","l","l","a","s"," ","T","X">> }

FreightDateInputs ==
    { <<>>,
      <<"2","0","2","5","-","0","6">>,
      <<"J","u","n","e"," ","2","0","2","5">>,
      <<"0","6","/","1","0","/","2","0","2","5">>,
      <<"l","a","s","t","_","m","o","n","t","h">>,
      <<"g","a","r","b","a","g","e">>,
      <<"2","0","2","5","-","1","3">>,
      <<"m","a","y">> }

FreightWarehouseInputs == { <<"a","l","l">>, <<"H","o","u","s","t","o","n">>, <<"w","e","s","t">> }

TodayInputs == { [y |-> 2025, m |-> 7, d |-> 15], [y |-> 2025, m |-> 1, d |-> 10] }

SearchFreight ==
    \E w \in FreightWarehouseInputs, dr \in FreightDateInputs,
       dest \in DestinationInputs, today \in TodayInputs :
        /\ call.op = "none"
        /\ call' = [op |-> "search_freight", warehouse |-> w, date_range |-> dr,
                    destination |-> dest, today |-> today]
        /\ result' = search_freight(freight, w, dr, dest, today)
        /\ UNCHANGED <<files, maps, session>>

InitFreight ==
    /\ call = [op |-> "none"]
    /\ result = None
    /\ InitMaps
    /\ InitSession
    /\ freight \in FreightTables
    /\ sales = <<>>

NextFreight == SearchFreight \/ Return

SpecFreight == InitFreight /\ [][NextFreight]_vars

IsFreightSearch ==
    /\ call.op = "search_freight"
    /\ freight # <<>>

\* The rows the warehouse filter of the call keeps.
CallWarehouseRows ==
    IF Lower(call.warehouse) = <<"a","l","l">> THEN 1..Len(freight)
    ELSE { i \in 1..Len(freight) :
             Contains(Lower(freight[i].warehouse), Lower(call.warehouse)) }

CallDestUpper == Strip(Upper(call.destination))

HasNote(text) ==
    \E k \in 1..Len(result.smart_notes) : result.smart_notes[k][1] = text

\* C3 as stated: with a destination and a parseable date_range, when the
\* destination step found rows but none of them lies in the queried range,
\* the result is the full destination-matched set and smart_notes names the
\* closest actual ship date.
DateExpansionNeverEmpty ==
    ( /\ IsFreightSearch
      /\ call.destination # <<>>
      /\ FreightDateRange(call.date_range, call.today).range # <<>>
      /\ result.destination_matches_before_date[1] # {}
      /\ InDateRange(freight, result.destination_matches_before_date[1],
                     FreightDateRange(call.date_range, call.today).range[1]) = {} ) =>
        /\ result.df # {}
        /\ result.df = result.destination_matches_before_date[1]
        /\ HasNote("Closest date:")

\* No strategy of the cascade matches a record of the warehouse-filtered
\* table.
NoStrategyMatches ==
    LET df == CallWarehouseRows
        words == Words(CallDestUpper)
    IN  IF Len(CallDestUpper) = 2
        THEN \A i \in df : RowState(freight[i]) # CallDestUpper
        ELSE IF \E i \in 1..Len(CallDestUpper) : CallDestUpper[i] = "-"
        THEN /\ DestinationContains(freight, df, CallDestUpper) = {}
             /\ CustomerContains(freight, df, Strip(Split(CallDestUpper, "-")[1])) = {}
             /\ DestinationContains(freight, df, Strip(AfterFirstHyphen(CallDestUpper))) = {}
        ELSE /\ CustomerContains(freight, df, CallDestUpper) = {}
             /\ DestinationContains(freight, df, CallDestUpper) = {}
             /\ CityStateContains(freight, df, CallDestUpper) = {}
             /\ \A k \in 1..Len(words) :
                   Len(words[k]) >= 3 => DestinationContains(freight, df, words[k]) = {}

\* C4 as stated: when no strategy of the cascade matches any record, the call
\* returns total_shipments = 0 with the "No shipments found" message and at
\* most five suggestions, never shipments that matched no strategy.
NoStrategyMatchReturnsNothing ==
    ( /\ IsFreightSearch
      /\ call.destination # <<>>
      /\ NoStrategyMatches ) =>
        /\ result.df = {}
        /\ "total_shipments" \in DOMAIN result
        /\ result.total_shipments = 0
        /\ result.message = "No shipments found matching criteria"
        /\ Cardinality(result.suggestions) <= 5

\* The query "CustomerX-CityY ST" of the call: the text before the first
\* hyphen and the text after it.
QueryHasHyphen == \E i \in 1..Len(CallDestUpper) : CallDestUpper[i] = "-"
QueryCustomer == Strip(Split(CallDestUpper, "-")[1])
QueryLocation == Strip(AfterFirstHyphen(CallDestUpper))

\* No record's customer contains CustomerX and a record of the filtered
\* warehouse has a destination containing "CityY ST".
UnknownCustomerKnownLocation ==
    /\ IsFreightSearch
    /\ call.destination # <<>>
    /\ Len(CallDestUpper) # 2
    /\ QueryHasHyphen
    /\ CustomerContains(freight, 1..Len(freight), QueryCustomer) = {}
    /\ DestinationContains(freight, CallWarehouseRows, QueryLocation) # {}

LocationOnlyResult ==
    /\ result.destination_matches_before_date
          = <<DestinationContains(freight, CallWarehouseRows, QueryLocation)>>
    /\ call.date_range = <<>> =>
          result.df = DestinationContains(freight, CallWarehouseRows, QueryLocation)
    /\ \E k \in 1..Len(result.smart_notes) :
          result.smart_notes[k] = <<"No customer found, showing all shipments to",
                                    QueryCustomer, QueryLocation>>

\* C5 as stated: a query "CustomerX-CityY ST" whose customer no record has
\* and whose location some record has returns exactly the records whose
\* destination contains "CityY ST", with a note that CustomerX was not found.
UnknownCustomerFallsBackToLocation ==
    UnknownCustomerKnownLocation => LocationOnlyResult

\* C5 amended: the same, provided no record's destination contains the whole
\* query string (the exact-match step comes first and then decides).
UnknownCustomerFallsBackToLocationUnlessExact ==
    ( /\ UnknownCustomerKnownLocation
      /\ DestinationContains(freight, CallWarehouseRows, CallDestUpper) = {} ) =>
        LocationOnlyResult

\* Two Reno shipments were returned for a customer that has none.
LocationOnlyFallbackSeen ==
    /\ UnknownCustomerKnownLocation
    /\ call.destination = <<"N","O","P","E","-","R","E","N","O"," ","N","V">>
    /\ call.date_range = <<>>
    /\ Cardinality(result.df) = 2
    /\ result.summary.total_shipments = 2
    /\ HasNote("No customer found, showing all shipments to")

\* The records of the filtered warehouse whose customer contains the query's
\* customer part, and those of them shipped to the query's location part.
QueryCustomerRows == CustomerContains(freight, CallWarehouseRows, QueryCustomer)
QueryCustomerRowsAtLocation == CityStateContains(freight, QueryCustomerRows, QueryLocation)

\* C19 as stated: for a hyphenated query with no whole-string match whose
\* customer part some record's customer contains, the destination step
\* narrows to that customer's records at the query's location when there is
\* one (also for a location containing a space), and falls back to all that
\* customer's records, with the "but none to" note, only when there is none.
CustomerQueryNarrowsToLocation ==
    ( /\ IsFreightSearch
      /\ call.destination # <<>>
      /\ Len(CallDestUpper) # 2
      /\ QueryHasHyphen
      /\ DestinationContains(freight, CallWarehouseRows, CallDestUpper) = {}
      /\ QueryCustomerRows # {} ) =>
        IF QueryCustomerRowsAtLocation # {}
        THEN /\ result.destination_matches_before_date = <<QueryCustomerRowsAtLocation>>
             /\ ~HasNote("Found shipments, but none to")
        ELSE /\ result.destination_matches_before_date = <<QueryCustomerRows>>
             /\ HasNote("Found shipments, but none to")

\* C25: search_freight with a date_range that is none of the accepted forms,
\* no destination and warehouse 'all' returns an error object.
UnparseableFreightDateIsAnError ==
    ( /\ call.op = "search_freight"
      /\ call.date_range # <<>>
      /\ FreightDateRange(call.date_range, call.today).range = <<>>
      /\ call.destination = <<>>
      /\ call.warehouse = <<"a","l","l">> ) =>
        "error" \in DOMAIN result

(***************************************************************************)
(* Search & Analytics Engine: search_orders                                *)
(*                                                                         *)
(* The sales table is a sequence of rows [customer, ship_to, product,      *)
(* state, quantity, order_date]; a data frame is a set of row indices.     *)
(***************************************************************************)
state_map ==
    <<"T","X">> :> <<"T","E","X","A","S">> @@ <<"C","A">> :> <<"C","A","L","I","F","O","R","N","I","A">> @@
    <<"N","Y">> :> <<"N","E","W"," ","Y","O","R","K">> @@ <<"F","L">> :> <<"F","L","O","R","I","D","A">> @@
    <<"P","A">> :> <<"P","E","N","N","S","Y","L","V","A","N","I","A">> @@ <<"V","A">> :> <<"V","I","R","G","I","N","I","A">> @@
    <<"N","J">> :> <<"N","E","W"," ","J","E","R","S","E","Y">> @@ <<"N","C">> :> <<"N","O","R","T","H"," ","C","A","R","O","L","I","N","A">> @@
    <<"G","A">> :> <<"G","E","O","R","G","I","A">> @@ <<"O","H">> :> <<"O","H","I","O">> @@
    <<"M","I">> :> <<"M","I","C","H","I","G","A","N">> @@ <<"I","L">> :> <<"I","L","L","I","N","O","I","S">> @@
    <<"W","A">> :> <<"W","A","S","H","I","N","G","T","O","N">> @@ <<"O","R">> :> <<"O","R","E","G","O","N">> @@
    <<"A","Z">> :> <<"A","R","I","Z","O","N","A">> @@ <<"C","O">> :> <<"C","O","L","O","R","A","D","O">> @@
    <<"M","A">> :> <<"M","A","S","S","A","C","H","U","S","E","T","T","S">> @@ <<"M","D">> :> <<"M","A","R","Y","L","A","N","D">> @@
    <<"M","N">> :> <<"M","I","N","N","E","S","O","T","A">> @@ <<"L","A">> :> <<"L","O","U","I","S","I","A","N","A">>

SupportedFormats ==
    <<"last_month", "last_quarter", "last_year", "ytd", "2024", "2024-06", "01/15/2024">>

\* 'last_quarter': the calendar quarter before today's.
LastQuarterRange(today) ==
    LET current_quarter == (today.m - 1) \div 3
    IN  IF current_quarter = 0
        THEN [start_date |-> Ordinal(today.y - 1, 10, 1),
              end_date |-> Ordinal(today.y - 1, 12, 31)]
        ELSE [start_date |-> Ordinal(today.y, (current_quarter - 1) * 3 + 1, 1),
              end_date |-> Ordinal(today.y, current_quarter * 3 + 1, 1) - 1]

Parsed(range, filters, raised) == [range |-> range, filters |-> filters, raised |-> raised]

\* The date_range of search_orders: a relative keyword, a bare year, YYYY-MM
\* or one of four specific date formats, tried in that order; range <<>> when
\* none fits.  datetime(year, 1, 1) raises ValueError for the year 0.
OrdersDateRange(date_range, today) ==
    LET lower == Lower(date_range)
        ym == YearMonthRange(date_range)
        specific == SpecificDateRange(date_range,
                        <<Fmt_mdY_slash, Fmt_Ymd_dash, Fmt_dmY_slash, Fmt_mdY_dash>>)
    IN  IF lower = <<"l","a","s","t","_","m","o","n","t","h">>
        THEN Parsed(<<LastMonthRange(today)>>, << <<"last month">> >>, <<>>)
        ELSE IF lower = <<"l","a","s","t","_","q","u","a","r","t","e","r">>
        THEN Parsed(<<LastQuarterRange(today)>>, << <<"last quarter">> >>, <<>>)
        ELSE IF lower = <<"l","a","s","t","_","y","e","a","r">>
        THEN Parsed(<<[start_date |-> Ordinal(today.y - 1, 1, 1),
                       end_date |-> Ordinal(today.y - 1, 12, 31)]>>,
                    << <<"year", today.y - 1>> >>, <<>>)
        ELSE IF lower = <<"y","t","d">>
        THEN Parsed(<<[start_date |-> Ordinal(today.y, 1, 1),
                       end_date |-> Ordinal(today.y, today.m, today.d)]>>,
                    << <<"YTD", today.y>> >>, <<>>)
        ELSE IF AllDigits(date_range) /\ Len(date_range) = 4
        THEN (IF ToInt(date_range) = 0
              THEN Parsed(<<>>, <<>>, <<"year 0 is out of range">>)
              ELSE Parsed(<<[start_date |-> Ordinal(ToInt(date_range), 1, 1),
                             end_date |-> Ordinal(ToInt(date_range), 12, 31)]>>,
                          << <<"year", ToInt(date_range)>> >>, <<>>))
        ELSE IF (\E i \in 1..Len(date_range) : date_range[i] = "-") /\ Len(date_range) = 7
        THEN (IF ym # <<>> THEN Parsed(ym, << <<"month", date_range>> >>, <<>>)
              ELSE Parsed(<<>>, <<>>, <<>>))
        ELSE IF specific # <<>>
        THEN Parsed(specific, << <<"date", specific[1].start_date>> >>, <<>>)
        ELSE Parsed(<<>>, <<>>, <<>>)

\* The customer filter: the ordering customer or the ship-to name contains
\* the text, whatever the case.
CustomerFilter(table, df, customer) ==
    { i \in df : \/ Contains(Upper(table[i].customer), Upper(customer))
                 \/ Contains(Upper(table[i].ship_to), Upper(customer)) }

ProductFilter(table, df, product) ==
    { i \in df : Contains(Upper(table[i].product), Upper(product)) }

\* The state filter: the abbreviation is replaced through state_map, then the
\* record's state must equal it.
StateFilter(table, df, state) ==
    LET state_upper == Strip(Upper(state))
        state_full == Get(state_map, state_upper, state_upper)
    IN  { i \in df : Upper(table[i].state) = state_full }

OrderDateFilter(table, df, range) ==
    { i \in df : /\ table[i].order_date # <<>>
                 /\ table[i].order_date[1] >= range.start_date
                 /\ table[i].order_date[1] <= range.end_date }

\* `elif date_range and not filters_applied`: an unparsed date is an error
\* even when another filter was applied.
DateParseFailed_always(date_range, filters_applied) == date_range # <<>>

\* `elif date_range and not filters_applied`
DateParseFailed(date_range, filters_applied) ==
    date_range # <<>> /\ filters_applied = <<>>

CouldNotParse(date_range) ==
    [ error |-> <<"Could not parse date:", date_range>>,
      supported_formats |-> SupportedFormats ]

\* The date span of the matches: min and max of the valid dates, or <<>>.
DateSpan(table, df) ==
    LET dates == { table[i].order_date[1] : i \in { j \in df : table[j].order_date # <<>> } }
    IN  IF dates = {} THEN <<>>
        ELSE << CHOOSE d \in dates : \A e \in dates : d <= e,
                CHOOSE d \in dates : \A e \in dates : e <= d >>

OrdersSummary(table, df, filters) ==
    IF df = {}
    THEN [ filters |-> filters, total_orders |-> 0,
           message |-> "No orders found matching criteria", df |-> df ]
    ELSE [ filters_applied |-> filters,
           summary |-> [ total_orders |-> Cardinality(df),
                         total_quantity |-> SumOver(table, df, "quantity"),
                         date_range |-> DateSpan(table, df),
                         avg_order_size |->
                             SumOver(table, df, "quantity") \div Cardinality(df) ],
           df |-> df ]

search_orders(table, customer, product, state, date_range, today) ==
    IF table = <<>> THEN [error |-> "Could not load sales data"]
    ELSE
    LET all == Matched(1..Len(table), <<>>, <<>>)
        c == IF customer # <<>>
             THEN Matched(CustomerFilter(table, all.df, customer),
                          all.filters \o << <<"customer contains", customer>> >>, <<>>)
             ELSE all
        p == IF product # <<>>
             THEN Matched(ProductFilter(table, c.df, product),
                          c.filters \o << <<"product contains", product>> >>, <<>>)
             ELSE c
        st == IF state # <<>>
              THEN Matched(StateFilter(table, p.df, state),
                           p.filters \o << <<"state =", state>> >>, <<>>)
              ELSE p
        parsed == OrdersDateRange(date_range, today)
    IN  IF date_range = <<>> THEN OrdersSummary(table, st.df, st.filters)
        ELSE IF parsed.raised # <<>> THEN [exception |-> parsed.raised[1]]
        ELSE IF parsed.range # <<>>
        THEN OrdersSummary(table, OrderDateFilter(table, st.df, parsed.range[1]),
                           st.filters \o parsed.filters)
        ELSE IF DateParseFailed(date_range, st.filters \o parsed.filters)
        THEN CouldNotParse(date_range)
        ELSE OrdersSummary(table, st.df, st.filters)

SalesRow(customer, ship_to, product, state, quantity, order_date) ==
    [ customer |-> customer, ship_to |-> ship_to, product |-> product,
      state |-> state, quantity |-> quantity, order_date |-> order_date ]

SalesRowPool ==
    << SalesRow(<<"A","C","M","E"," ","C","O","R","P">>, <<"A","C","M","E"," ","D","A","L","L","A","S">>,
                <<"N"," ","1","4","/","1","4","6"," ","D","C">>, <<"T","e","x","a","s">>, 10, <<Ordinal(2024, 6, 15)>>),
       SalesRow(<<"B","o","l","t"," ","I","n","c">>, <<"A","c","m","e"," ","D","e","p","o","t">>,
                <<"N"," ","2","1","/","1","5","6"," ","D","C">>, <<"C","a","l","i","f","o","r","n","i","a">>, 5, <<>>),
       SalesRow(<<"Z","E","T","A">>, <<"Z","E","T","A">>,
                <<"N"," ","1","4","/","1","4","6"," ","D","C">>, <<"V","i","r","g","i","n","i","a">>, 7, <<Ordinal(2025, 1, 20)>>),
       SalesRow(<<"Z","e","t","a">>, <<"Z","e","t","a"," ","E","a","s","t">>,
                <<"N"," ","2","1","/","1","5","6"," ","D","C">>, <<"W","e","s","t"," ","V","i","r","g","i","n","i","a">>, 3, <<Ordinal(2024, 12, 31)>>),
       SalesRow(<<"B","o","l","t"," ","I","n","c">>, <<"B","o","l","t"," ","I","n","c">>,
                <<"N"," ","1","4","/","1","4","6"," ","D","C">>, <<"T","e","n","n","e","s","s","e","e">>, 4, <<Ordinal(2025, 6, 30)>>) >>

\* What load_sales_data() returns: up to MaxRows rows, or nothing when no
\* file can be read.
SalesTables ==
    { Pick(SalesRowPool, S) :
        S \in { T \in SUBSET (1..Len(SalesRowPool)) : Cardinality(T) <= MaxRows } }

CustomerInputs == { <<>>, <<"a","c","m","e">>, <<"n","o","b","o","d","y">> }
ProductInputs == { <<>>, <<"1","4","/","1","4","6">> }
OrderStateInputs == { <<>>, <<"t","x">>, <<"V","i","r","g","i","n","i","a">>, <<"T","N">> }

OrderDateInputs ==
    { <<>>,
      <<"g","a","r","b","a","g","e">>,
      <<"2","0","2","4","-","1","3">>,
      <<"n","e","x","t"," ","w","e","e","k">>,
      <<"2","0","2","4">>,
      <<"0","0","0","0">>,
      <<"2","0","2","4","-","0","6">>,
      <<"0","6","/","1","5","/","2","0","2","4">>,
      <<"1","5","-","0","6","-","2","0","2","4">>,
      <<"y","t","d">>,
      <<"l","a","s","t","_","q","u","a","r","t","e","r">>,
      <<"l","a","s","t","_","y","e","a","r">>,
      <<"L","A","S","T","_","M","O","N","T","H">> }

SearchOrders ==
    \E c \in CustomerInputs, p \in ProductInputs, st \in OrderStateInputs,
       dr \in OrderDateInputs, today \in TodayInputs :
        /\ call.op = "none"
        /\ call' = [op |-> "search_orders", customer |-> c, product |-> p,
                    state |-> st, date_range |-> dr, today |-> today]
        /\ result' = search_orders(sales, c, p, st, dr, today)
        /\ UNCHANGED <<files, maps, session>>

InitOrders ==
    /\ call = [op |-> "none"]
    /\ result = None
    /\ InitMaps
    /\ InitSession
    /\ freight = <<>>
    /\ sales \in SalesTables

NextOrders == SearchOrders \/ Return

SpecOrders == InitOrders /\ [][NextOrders]_vars

\* The date_range texts of the call that are in none of the supported forms.
UnsupportedDateTexts == { <<"g","a","r","b","a","g","e">>, <<"2","0","2","4","-","1","3">>, <<"n","e","x","t"," ","w","e","e","k">> }

\* The records whose customer or ship-to name contains the call's customer.
CallCustomerRows ==
    { i \in 1..Len(sales) :
        \E col \in {sales[i].customer, sales[i].ship_to} :
            Contains(Upper(col), Upper(call.customer)) }

\* C10: with sales data loaded, an unparseable date_range and no other filter
\* give an error object listing the supported formats; the same date_range
\* with a customer filter gives no error and exactly the customer-filtered
\* records.
UnparseableDateErrorsOnlyWhenAlone ==
    ( /\ call.op = "search_orders"
      /\ sales # <<>>
      /\ call.date_range \in UnsupportedDateTexts
      /\ call.product = <<>>
      /\ call.state = <<>> ) =>
        IF call.customer = <<>>
        THEN /\ "error" \in DOMAIN result
             /\ "supported_formats" \in DOMAIN result
             /\ result.supported_formats = SupportedFormats
        ELSE /\ "error" \notin DOMAIN result
             /\ "exception" \notin DOMAIN result
             /\ result.df = CallCustomerRows

\* An unparseable date was dropped next to a customer filter that matched.
UnparseableDateIgnoredSeen ==
    /\ call.op = "search_orders"
    /\ call.date_range = <<"2","0","2","4","-","1","3">>
    /\ call.customer = <<"a","c","m","e">>
    /\ call.product = <<>>
    /\ call.state = <<>>
    /\ "summary" \in DOMAIN result
    /\ result.summary.total_orders = 2

\* The full name of the US state the call's state filter abbreviates, as the
\* name <-> abbreviation table STATE_ABBREV has it; <<>> when it is no
\* abbreviation.
CallStateFullName ==
    LET names == { n \in DOMAIN STATE_ABBREV : STATE_ABBREV[n] = Strip(Upper(call.state)) }
    IN  IF names = {} THEN <<>> ELSE CHOOSE n \in names : TRUE

\* C17 as stated: for every US state, search_orders with the state filter
\* given as the two-letter abbreviation selects the same orders as with the
\* filter given as the state's full name.
StateAbbreviationSelectsSameOrdersAsFullName ==
    ( /\ call.op = "search_orders"
      /\ sales # <<>>
      /\ CallStateFullName # <<>>
      /\ "df" \in DOMAIN result ) =>
        LET named == search_orders(sales, call.customer, call.product,
                                   CallStateFullName, call.date_range, call.today)
        IN  /\ "df" \in DOMAIN named
            /\ result.df = named.df

(***************************************************************************)
(* Backlog: get_backlog_summary                                            *)
(*                                                                         *)
(* The backlog file is read anew by every call.  It is absent, unreadable, *)
(* or a sequence of rows [zone, inco2, qty]: 'Ship-toTrasp.Zone' and       *)
(* 'Inco 2' are <<>> (NaN) or <<text>>, 'Order Qty' is <<>> (not a number) *)
(* or <<n>>.                                                               *)
(***************************************************************************)
FileNotFound == [file |-> "absent"]
FileUnreadable == [file |-> "unreadable"]
FileRows(rows) == [file |-> "read", rows |-> rows]

\* extract_state: None for NaN, else str(zone)[:2].upper()
extract_state(zone) ==
    IF zone = <<>> THEN <<>> ELSE <<Upper(Prefix(zone[1], 2))>>

\* extract_warehouse
extract_warehouse(inco2) ==
    IF inco2 = <<>> THEN <<"U","n","k","n","o","w","n">>
    ELSE Only({ IF Contains(inco2_upper, <<"M","E","M","P","H","I","S">>) THEN WestMemphis
                ELSE IF Contains(inco2_upper, <<"H","O","U","S","T","O","N">>) THEN Houston
                ELSE IF Contains(inco2_upper, <<"S","T","O","C","K","T","O","N">>) THEN California
                ELSE <<"U","n","k","n","o","w","n">>
                : inco2_upper \in {Upper(inco2[1])} })

\* pd.to_numeric(..., errors='coerce').fillna(0)
Quantity(row) == IF row.qty = <<>> THEN 0 ELSE row.qty[1]

RECURSIVE QuantitySum(_, _)
QuantitySum(rows, S) ==
    IF S = {} THEN 0
    ELSE LET i == CHOOSE i \in S : TRUE
         IN  Quantity(rows[i]) + QuantitySum(rows, S \ {i})

\* df.groupby('Warehouse'): the groups in the sorted order of their keys.
WarehouseKeysSorted == <<California, Houston, <<"U","n","k","n","o","w","n">>, WestMemphis>>

WarehouseBreakdown(rows) ==
    LET group(k) == { i \in 1..Len(rows) : extract_warehouse(rows[i].inco2)
                                              = WarehouseKeysSorted[k] }
        present == SelectSeq(<<1, 2, 3, 4>>, LAMBDA k : group(k) # {})
    IN  [ n \in 1..Len(present) |->
            [ warehouse |-> WarehouseKeysSorted[present[n]],
              orders |-> Cardinality(group(present[n])),
              quantity |-> QuantitySum(rows, group(present[n])) ] ]

\* df.groupby('State') ... .sort_values(sum, ascending=False).head(10): rows
\* without a state are in no group; groups of equal sum come in any order,
\* so this is the set of the breakdowns the call may return.
StateBreakdowns(rows) ==
    LET keys == { extract_state(rows[i].zone)[1] :
                    i \in { j \in 1..Len(rows) : rows[j].zone # <<>> } }
        group(k) == { i \in 1..Len(rows) : extract_state(rows[i].zone) = <<k>> }
        n == Cardinality(keys)
        orders == { o \in [1..n -> keys] :
                      /\ \A a, b \in 1..n : a # b => o[a] # o[b]
                      /\ \A a \in 1..(n - 1) :
                            QuantitySum(rows, group(o[a]))
                                >= QuantitySum(rows, group(o[a + 1])) }
    IN  { [ m \in 1..(IF n < 10 THEN n ELSE 10) |->
              [ state |-> o[m],
                orders |-> Cardinality(group(o[m])),
                quantity |-> QuantitySum(rows, group(o[m])) ] ] : o \in orders }

UnknownGroupBy(group_by) == [error |-> <<"Unknown group_by:", group_by>>]

\* The set of the results get_backlog_summary(group_by) may return for a
\* backlog file; group_by is <<>> when the argument is omitted.
get_backlog_summary(backlog, group_by) ==
    LET g == IF group_by = <<>> THEN "warehouse" ELSE group_by[1]
    IN  IF backlog = FileNotFound THEN { [error |-> "Backlog file not found"] }
        ELSE IF backlog = FileUnreadable THEN { [error |-> "Could not read backlog file"] }
        ELSE IF g = "warehouse"
        THEN { [ backlog_summary |-> "By Warehouse",
                 total_orders |-> Len(backlog.rows),
                 total_quantity |-> QuantitySum(backlog.rows, 1..Len(backlog.rows)),
                 breakdown |-> WarehouseBreakdown(backlog.rows) ] }
        ELSE IF g = "state"
        THEN { [ backlog_summary |-> "Top 10 States", breakdown |-> b ]
               : b \in StateBreakdowns(backlog.rows) }
        ELSE { UnknownGroupBy(g) }

BacklogRow(zone, inco2, qty) == [zone |-> zone, inco2 |-> inco2, qty |-> qty]

BacklogRowPool ==
    << BacklogRow(<< <<"t","x","0","1">> >>, << <<"H","o","u","s","t","o","n",","," ","T","X">> >>, <<10>>),
       BacklogRow(<< <<"T","N","0","2">> >>, << <<"W","E","S","T"," ","M","E","M","P","H","I","S">> >>, <<5>>),
       BacklogRow(<<>>, <<>>, <<>>),
       BacklogRow(<< <<"C","A","9">> >>, << <<"S","t","o","c","k","t","o","n">> >>, <<5>>),
       BacklogRow(<< <<"T","X","7">> >>, << <<"D","a","l","l","a","s">> >>, <<3>>) >>

BacklogFiles ==
    { FileNotFound, FileUnreadable }
        \cup { FileRows(Pick(BacklogRowPool, S)) :
                 S \in { T \in SUBSET (1..Len(BacklogRowPool)) : Cardinality(T) <= MaxRows } }

\* The group_by values the tool definition advertises.
AdvertisedGroupBy == {"warehouse", "state", "product"}

GroupByInputs ==
    { <<>> } \cup { <<g>> : g \in AdvertisedGroupBy \cup {"Warehouse", "customer", ""} }

GetBacklogSummary ==
    \E b \in BacklogFiles, g \in GroupByInputs :
        \E r \in get_backlog_summary(b, g) :
            /\ call.op = "none"
            /\ call' = [op |-> "get_backlog_summary", backlog |-> b, group_by |-> g]
            /\ result' = r
            /\ UNCHANGED <<files, maps, session>>

InitBacklog ==
    /\ call = [op |-> "none"]
    /\ result = None
    /\ InitMaps
    /\ InitSession
    /\ freight = <<>>
    /\ sales = <<>>

NextBacklog == GetBacklogSummary \/ Return

SpecBacklog == InitBacklog /\ [][NextBacklog]_vars

\* C18 as stated: with a readable backlog file, get_backlog_summary returns a
\* breakdown, not an error, for 'warehouse', 'state' and 'product', does for
\* an omitted group_by what it does for 'warehouse', and returns the
\* "Unknown group_by" error for every other value.
AdvertisedGroupByGivesBreakdown ==
    (call.op = "get_backlog_summary" /\ call.backlog.file = "read") =>
        IF call.group_by = <<>>
        THEN result \in get_backlog_summary(call.backlog, <<"warehouse">>)
        ELSE IF call.group_by[1] \in AdvertisedGroupBy
        THEN "breakdown" \in DOMAIN result /\ "error" \notin DOMAIN result
        ELSE result = UnknownGroupBy(call.group_by[1])

(***************************************************************************)
(* src/google_maps.py: the in-memory cache with TTL                        *)
(*                                                                         *)
(* cache maps a key to [data, timestamp]; now is datetime.now(), in        *)
(* seconds.  A key is the text "func:arg:arg..." that _cache_key hashes    *)
(* (md5, taken as one-to-one); an optional value is <<>> (None) or <<v>>.  *)
(***************************************************************************)
cache_ttl == 3600

\* del _cache[key]
Without(c, key) ==
    IF DOMAIN c \ {key} = {} THEN <<>>
    ELSE [k \in DOMAIN c \ {key} |-> c[k]]

\* _get_cached with `<=` for `<`.
get_cached_inclusive(c, key, t) ==
    IF key \in DOMAIN c
    THEN IF t - c[key].timestamp <= cache_ttl
         THEN [returned |-> <<c[key].data>>, timestamp |-> <<c[key].timestamp>>, cache |-> c]
         ELSE [returned |-> <<>>, timestamp |-> <<c[key].timestamp>>,
               cache |-> Without(c, key)]
    ELSE [returned |-> <<>>, timestamp |-> <<>>, cache |-> c]

\* _get_cached(key) at time t: what it returns, its local `timestamp` (<<>>
\* when the key is not in the cache), and the cache it leaves.
get_cached(c, key, t) ==
    IF key \in DOMAIN c
    THEN IF t - c[key].timestamp < cache_ttl
         THEN [returned |-> <<c[key].data>>, timestamp |-> <<c[key].timestamp>>, cache |-> c]
         ELSE [returned |-> <<>>, timestamp |-> <<c[key].timestamp>>,
               cache |-> Without(c, key)]
    ELSE [returned |-> <<>>, timestamp |-> <<>>, cache |-> c]

\* _set_cached(key, data) at time t: the cache it leaves.
set_cached(c, key, data, t) ==
    [k \in DOMAIN c \cup {key} |->
        IF k = key THEN [data |-> data, timestamp |-> t] ELSE c[k]]

CacheKeyInputs == { <<"k","1">>, <<"k","2">> }
CacheDataInputs == { [name |-> "a"], [name |-> "b"] }

\* The clock advances between calls, by a little less than half the TTL or by
\* exactly half of it.
ClockSteps == { 1799, 1800 }

Tick ==
    \E d \in ClockSteps :
        /\ call.op = "none"
        /\ now + d <= MaxClock
        /\ now' = now + d
        /\ UNCHANGED <<call, result, files, cache, GOOGLE_MAPS_API_KEY, session>>

SetCached ==
    \E key \in CacheKeyInputs, data \in CacheDataInputs :
        /\ call.op = "none"
        /\ call' = [op |-> "_set_cached", key |-> key, data |-> data]
        /\ result' = None
        /\ cache' = set_cached(cache, key, data, now)
        /\ UNCHANGED <<files, now, GOOGLE_MAPS_API_KEY, session>>

GetCached ==
    \E key \in CacheKeyInputs :
        /\ call.op = "none"
        /\ call' = [op |-> "_get_cached", key |-> key]
        /\ result' = [ returned |-> get_cached(cache, key, now).returned,
                       timestamp |-> get_cached(cache, key, now).timestamp ]
        /\ cache' = get_cached(cache, key, now).cache
        /\ UNCHANGED <<files, now, GOOGLE_MAPS_API_KEY, session>>

InitCache ==
    /\ call = [op |-> "none"]
    /\ result = None
    /\ InitMaps
    /\ InitSession
    /\ freight = <<>>
    /\ sales = <<>>

NextCache == Tick \/ SetCached \/ GetCached \/ Return

SpecCache == InitCache /\ [][NextCache]_vars

\* C16: a lookup returns the stored value only if the entry is less than
\* 3600 seconds old; a lookup finding an entry of age 3600 or more returns
\* absent and removes that entry, and leaves every other entry alone; no
\* other step removes an entry.
CacheLookupEvictsExactlyTheExpired ==
    [][ /\ call'.op = "_get_cached" =>
            LET k == call'.key
            IN  IF k \in DOMAIN cache /\ now - cache[k].timestamp < 3600
                THEN result'.returned = <<cache[k].data>> /\ cache' = cache
                ELSE /\ result'.returned = <<>>
                     /\ DOMAIN cache' = DOMAIN cache \ {k}
                     /\ \A j \in DOMAIN cache' : cache'[j] = cache[j]
        /\ \A k \in DOMAIN cache \ DOMAIN cache' :
              /\ call'.op = "_get_cached"
              /\ call'.key = k
              /\ now - cache[k].timestamp >= 3600 ]_vars

\* A lookup found an entry exactly 3600 seconds old, returned absent and
\* removed it.
ExpiredEntryEvictedSeen ==
    /\ call.op = "_get_cached"
    /\ result.timestamp # <<>>
    /\ now - result.timestamp[1] = 3600
    /\ result.returned = <<>>
    /\ call.key \notin DOMAIN cache

(***************************************************************************)
(* src/google_maps.py: the Distance Optimizer                              *)
(***************************************************************************)

\* COST_RATES of src/google_maps.py, $/lb in units of 1e-4 $.
MAPS_COST_RATES ==
    Houston :> (
        <<"T","X">> :> 277 @@ <<"L","A">> :> 550 @@ <<"O","K">> :> 700 @@ <<"A","R">> :> 650 @@
        <<"N","M">> :> 850 @@ <<"M","S">> :> 700 @@ <<"A","L">> :> 850 @@ <<"T","N">> :> 900 @@
        <<"G","A">> :> 950 @@ <<"F","L">> :> 1100 @@ DefaultKey :> 850 )
    @@ WestMemphis :> (
        <<"T","N">> :> 350 @@ <<"A","R">> :> 375 @@ <<"M","S">> :> 400 @@ <<"A","L">> :> 375 @@
        <<"K","Y">> :> 450 @@ <<"I","N">> :> 524 @@ <<"O","H">> :> 673 @@ <<"I","L">> :> 773 @@
        <<"M","O">> :> 550 @@ <<"V","A">> :> 836 @@ <<"N","C">> :> 800 @@ <<"G","A">> :> 750 @@
        <<"F","L">> :> 900 @@ <<"T","X">> :> 1042 @@ <<"P","A">> :> 1001 @@ DefaultKey :> 925 )
    @@ California :> (
        <<"C","A">> :> 247 @@ <<"N","V">> :> 450 @@ <<"A","Z">> :> 645 @@ <<"O","R">> :> 850 @@
        <<"W","A">> :> 900 @@ <<"U","T">> :> 909 @@ <<"C","O">> :> 1000 @@ <<"I","D">> :> 1368 @@
        <<"T","X">> :> 1520 @@ DefaultKey :> 1200 )

\* rate_per_lb in 1e-4 $; estimated_cost and cost_per_pallet in cents.
get_state_based_cost(warehouse, state, weight_lbs) ==
    Only({ Only({ [ warehouse |-> warehouse,
                    rate_per_lb |-> Get(rates, state_upper, rates[DefaultKey]),
                    estimated_cost |->
                        RoundHalfEven(weight_lbs * Get(rates, state_upper, rates[DefaultKey]), 100),
                    cost_per_pallet |->
                        RoundHalfEven(920 * Get(rates, state_upper, rates[DefaultKey]), 100),
                    data_source |-> "historical_freight_2025",
                    confidence |-> IF state_upper \in DOMAIN rates THEN "HIGH" ELSE "MEDIUM" ]
                  : rates \in {Get(MAPS_COST_RATES, warehouse, MAPS_COST_RATES[WestMemphis])} })
           : state_upper \in {Upper(state)} })

MapsStateInputs ==
    { <<"T","X">>, <<"A","R">>, <<"T","N">>, <<"C","A">>, <<"O","H">>, <<"Z","Z">>, <<"t","n">> }

MapsWeightInputs == { 0, 500, 40000 }

GetStateBasedCost ==
    \E w \in {Houston, WestMemphis, California}, s \in MapsStateInputs, lbs \in MapsWeightInputs :
        /\ call.op = "none"
        /\ call' = [op |-> "get_state_based_cost", warehouse |-> w, state |-> s,
                    weight_lbs |-> lbs]
        /\ result' = get_state_based_cost(w, s, lbs)
        /\ UNCHANGED <<files, maps, session>>

\* C20: for a warehouse and a state abbreviation, the rate and the confidence
\* get_state_based_cost of google_maps uses equal the rate get_cost_rate of
\* tools returns and the confidence estimate_shipping_cost of tools reports
\* (for one pallet: the confidence does not depend on the amount).
MapsRateAndConfidenceEqualCostEngine ==
    call.op = "get_state_based_cost" =>
        /\ result.rate_per_lb = get_cost_rate(call.warehouse, call.state)
        /\ result.confidence =
              estimate_shipping_cost(call.warehouse, call.state, <<LBS_PER_PALLET>>,
                                     <<>>, <<>>).confidence

\* EDGE_CASES; a field an entry does not have is not in its record.
EDGE_CASES ==
    <<"E","L"," ","P","A","S","O">> :>
        [expected |-> "Houston", better |-> "California",
         reason |-> "El Paso is 750mi from Houston but only 550mi from Stockton"]
    @@ <<"O","D","E","S","S","A">> :>
        [expected |-> "Houston", note |-> "Far West Texas - verify distance"]
    @@ <<"M","I","D","L","A","N","D">> :>
        [expected |-> "Houston", note |-> "Far West Texas - verify distance"]
    @@ <<"A","M","A","R","I","L","L","O">> :>
        [expected |-> "Houston", note |-> "Texas Panhandle - closer to multiple hubs"]
    @@ <<"F","O","R","E","S","T"," ","P","A","R","K">> :>
        [state |-> <<"G","A">>, note |-> "Atlanta suburb - verify optimal route"]
    @@ <<"A","S","H","L","A","N","D">> :>
        [state |-> <<"V","A">>,
         note |-> "Near DC - could go West Memphis or future East Coast"]

\* The warehouse names as they read inside a message; a message built by an
\* f-string is the tuple of its parts.
WarehouseText == <<"Houston", "West Memphis", "California">>

\* f"{func_name}:{':'.join(str(a) for a in args)}", the text _cache_key hashes.
RECURSIVE JoinColon(_)
JoinColon(args) ==
    IF args = <<>> THEN <<>>
    ELSE IF Len(args) = 1 THEN args[1]
    ELSE args[1] \o <<":">> \o JoinColon(Tail(args))

cache_key(func_name, args) == func_name \o <<":">> \o JoinColon(args)

\* str.isupper() and str.isalpha() on ASCII text: not empty, capitals only.
IsUpperAlpha(s) ==
    /\ s # <<>>
    /\ \A i \in 1..Len(s) : \E j \in 1..26 : UpperLetters[j] = s[i]

\* (customer, city, state)
parse_destination(destination) ==
    Only({ Only({ IF \E i \in 1..Len(rest) : rest[i] = "-"
                  THEN Only({ [ customer |-> Strip(SubSeq(rest, 1, h - 1)),
                                city |-> Strip(SubSeq(rest, h + 1, Len(rest))),
                                state |-> IF Len(d) >= 2 /\ IsUpperAlpha(Strip(SubSeq(d, Len(d) - 1, Len(d))))
                                          THEN Strip(SubSeq(d, Len(d) - 1, Len(d))) ELSE <<>> ]
                              : h \in {CHOOSE i \in 1..Len(rest) :
                                          rest[i] = "-" /\ \A j \in 1..(i - 1) : rest[j] # "-"} })
                  ELSE [ customer |-> <<>>,
                         city |-> rest,
                         state |-> IF Len(d) >= 2 /\ IsUpperAlpha(Strip(SubSeq(d, Len(d) - 1, Len(d))))
                                   THEN Strip(SubSeq(d, Len(d) - 1, Len(d))) ELSE <<>> ]
                  : rest \in {IF Len(d) >= 2 /\ IsUpperAlpha(Strip(SubSeq(d, Len(d) - 1, Len(d))))
                              THEN Strip(SubSeq(d, 1, Len(d) - 2)) ELSE d} })
           : d \in {Strip(destination)} })

\* None, or the entry of EDGE_CASES with is_edge_case, city and state.
check_edge_case(city, state) ==
    Only({ IF city_upper \in DOMAIN EDGE_CASES
           THEN IF "state" \in DOMAIN EDGE_CASES[city_upper]
                   /\ EDGE_CASES[city_upper].state # state
                THEN None
                ELSE EDGE_CASES[city_upper]
                     @@ [is_edge_case |-> TRUE, city |-> city, state |-> state]
           ELSE None
           : city_upper \in {Strip(Upper(city))} })

\* `not GOOGLE_MAPS_API_KEY or GOOGLE_MAPS_API_KEY == 'your-google-maps-api-key-here'`;
\* "" stands for an unset variable too.
KeyNotConfigured(key) == key = "" \/ key = "your-google-maps-api-key-here"

\* cached['from_cache'] = True: the dict held in the cache is the one changed.
MarkFromCache(c, key) ==
    [c EXCEPT ![key] = [data |-> [from_cache |-> TRUE] @@ c[key].data,
                        timestamp |-> c[key].timestamp]]

\* find_business_address storing the answer of a refused request as well.
find_business_address_failure_cached(c, key, customer, city, state, place, t) ==
    Only({ Only({
        IF hit.returned # <<>>
        THEN [ result |-> [from_cache |-> TRUE] @@ hit.returned[1],
               cache |-> MarkFromCache(hit.cache, k) ]
        ELSE IF KeyNotConfigured(key)
        THEN [ result |-> [success |-> FALSE, error |-> <<"Google Maps API key not configured">>],
               cache |-> hit.cache ]
        ELSE IF place.kind = "OK"
        THEN [ result |-> [success |-> TRUE, name |-> place.name, address |-> place.address],
               cache |-> set_cached(hit.cache, k,
                            [success |-> TRUE, name |-> place.name, address |-> place.address], t) ]
        ELSE IF place.kind = "ZERO_RESULTS"
        THEN [ result |-> [success |-> TRUE,
                           name |-> IF customer # <<>> THEN customer ELSE city,
                           address |-> city \o <<",", " ">> \o state,
                           fallback |-> TRUE],
               cache |-> set_cached(hit.cache, k,
                            [success |-> TRUE,
                             name |-> IF customer # <<>> THEN customer ELSE city,
                             address |-> city \o <<",", " ">> \o state,
                             fallback |-> TRUE], t) ]
        ELSE IF place.kind = "status"
        THEN [ result |-> [success |-> FALSE, error |-> <<place.status>>],
               cache |-> set_cached(hit.cache, k,
                                    [success |-> FALSE, error |-> <<place.status>>], t) ]
        ELSE [ result |-> [success |-> FALSE, error |-> <<place.message>>], cache |-> hit.cache ]
        : hit \in {get_cached(c, k, t)} })
      : k \in {cache_key(<<"p","l","a","c","e","s">>, <<customer, city, state>>)} })

\* find_business_address at time t, the Places request answering `place`:
\*   [kind |-> "OK", name, address]   status OK with a first result
\*   [kind |-> "ZERO_RESULTS"]
\*   [kind |-> "status", status]      any other status
\*   [kind |-> "exception", message]  requests.get or response.json() raised
\* Gives the dict returned and the cache left.
find_business_address(c, key, customer, city, state, place, t) ==
    Only({ Only({
        IF hit.returned # <<>>
        THEN [ result |-> [from_cache |-> TRUE] @@ hit.returned[1],
               cache |-> MarkFromCache(hit.cache, k) ]
        ELSE IF KeyNotConfigured(key)
        THEN [ result |-> [success |-> FALSE, error |-> <<"Google Maps API key not configured">>],
               cache |-> hit.cache ]
        ELSE IF place.kind = "OK"
        THEN [ result |-> [success |-> TRUE, name |-> place.name, address |-> place.address],
               cache |-> set_cached(hit.cache, k,
                            [success |-> TRUE, name |-> place.name, address |-> place.address], t) ]
        ELSE IF place.kind = "ZERO_RESULTS"
        THEN [ result |-> [success |-> TRUE,
                           name |-> IF customer # <<>> THEN customer ELSE city,
                           address |-> city \o <<",", " ">> \o state,
                           fallback |-> TRUE],
               cache |-> set_cached(hit.cache, k,
                            [success |-> TRUE,
                             name |-> IF customer # <<>> THEN customer ELSE city,
                             address |-> city \o <<",", " ">> \o state,
                             fallback |-> TRUE], t) ]
        ELSE IF place.kind = "status"
        THEN [ result |-> [success |-> FALSE, error |-> <<place.status>>], cache |-> hit.cache ]
        ELSE [ result |-> [success |-> FALSE, error |-> <<place.message>>], cache |-> hit.cache ]
        : hit \in {get_cached(c, k, t)} })
      : k \in {cache_key(<<"p","l","a","c","e","s">>, <<customer, city, state>>)} })

\* round(distance_meters / 1609.34, 1), in tenths of a mile.
Miles(distance_meters) == RoundHalfEven(distance_meters * 1000, 160934)

\* The entry of `distances` for a route of duration_seconds: drive_time as
\* (hours, minutes), drive_hours in tenths.
DistanceEntry(warehouse_name, route) ==
    [ warehouse |-> warehouse_name,
      miles |-> Miles(route.distanceMeters),
      drive_time |-> <<route.duration \div 3600, (route.duration % 3600) \div 60>>,
      drive_hours |-> RoundHalfEven(route.duration * 10, 3600),
      delivery_days |-> IF route.duration <= 36000 THEN 1
                        ELSE IF route.duration <= 72000 THEN 2 ELSE 3 ]

\* calculate_distances at time t, the Routes request for Warehouses[i]
\* answering routes[i]:
\*   [kind |-> "route", distanceMeters, duration]   a first route
\*   [kind |-> "empty"]                             neither routes nor error
\*   [kind |-> "error", message]                    an error payload
\*   [kind |-> "exception", message]                requests.post or json() raised
\* `distances` is the list of its entries in insertion order.
calculate_distances(c, key, destination_address, routes, t) ==
    Only({ Only({
        IF hit.returned # <<>>
        THEN [ result |-> [from_cache |-> TRUE] @@ hit.returned[1],
               cache |-> MarkFromCache(hit.cache, k) ]
        ELSE IF KeyNotConfigured(key)
        THEN [ result |-> [success |-> FALSE, error |-> <<"Google Maps API key not configured">>],
               cache |-> hit.cache ]
        ELSE IF \E i \in 1..3 : routes[i].kind \in {"error", "exception"}
        THEN Only({ [ result |->
                        [ success |-> FALSE,
                          error |-> IF routes[i].kind = "error"
                                    THEN <<"Routes API: ", routes[i].message>>
                                    ELSE <<"Routes API error for ", WarehouseText[i], ": ",
                                           routes[i].message>> ],
                      cache |-> hit.cache ]
                    : i \in {CHOOSE i \in 1..3 :
                                /\ routes[i].kind \in {"error", "exception"}
                                /\ \A j \in 1..(i - 1) : routes[j].kind \notin {"error", "exception"}} })
        ELSE IF \A i \in 1..3 : routes[i].kind # "route"
        THEN [ result |-> [success |-> FALSE, error |-> <<"No routes calculated">>],
               cache |-> hit.cache ]
        ELSE Only({ [ result |-> [success |-> TRUE, distances |-> distances],
                      cache |-> set_cached(hit.cache, k,
                                           [success |-> TRUE, distances |-> distances], t) ]
                    : distances \in
                        { [ n \in 1..Cardinality({i \in 1..3 : routes[i].kind = "route"}) |->
                              DistanceEntry(
                                Warehouses[CHOOSE i \in 1..3 :
                                    /\ routes[i].kind = "route"
                                    /\ Cardinality({j \in 1..i : routes[j].kind = "route"}) = n],
                                routes[CHOOSE i \in 1..3 :
                                    /\ routes[i].kind = "route"
                                    /\ Cardinality({j \in 1..i : routes[j].kind = "route"}) = n]) ] } })
        : hit \in {get_cached(c, k, t)} })
      : k \in {cache_key(<<"d","i","s","t","a","n","c","e","s">>, <<destination_address>>)} })

\* The LTL premium reaching 10000 lb and the partial one 20000 lb.
RatePerMile_inclusive(weight_lbs) ==
    IF weight_lbs <= 10000 THEN 525 ELSE IF weight_lbs <= 20000 THEN 420 ELSE 350

\* rate_per_mile in cents: 3.50, times 1.5 under 10000 lb, times 1.2 under 20000 lb.
RatePerMile(weight_lbs) ==
    IF weight_lbs < 10000 THEN 525 ELSE IF weight_lbs < 20000 THEN 420 ELSE 350

\* estimate_shipping_cost of src/google_maps.py; miles in tenths, costs in
\* cents.  distance_cost = miles * rate_per_mile is miles * rate in 1e-3 $.
maps_estimate_shipping_cost(warehouse, miles, weight_lbs, state) ==
    Only({ [ blended_cost |->
                 IF historical.confidence = "HIGH"
                 THEN RoundHalfEven(70 * historical.estimated_cost
                                    + 3 * miles * RatePerMile(weight_lbs), 100)
                 ELSE RoundHalfEven(7 * miles * RatePerMile(weight_lbs)
                                    + 30 * historical.estimated_cost, 100),
             distance_cost |-> RoundHalfEven(miles * RatePerMile(weight_lbs), 10),
             historical_cost |-> historical.estimated_cost,
             primary_method |-> IF historical.confidence = "HIGH"
                                THEN "historical" ELSE "distance",
             cost_per_mile |-> RatePerMile(weight_lbs),
             cost_per_lb |-> historical.rate_per_lb,
             confidence |-> historical.confidence ]
           : historical \in {get_state_based_cost(warehouse, state, weight_lbs)} })

analyze_routing_decision(best, state) ==
    Only({ [ state_based_default |-> state_default,
             google_maps_recommendation |-> best.warehouse,
             recommendations_match |-> best.warehouse = state_default ]
           : state_default \in
               { IF Upper(state) \in { <<"C","A">>, <<"O","R">>, <<"W","A">>, <<"N","V">>,
                                       <<"A","Z">>, <<"I","D">> }
                 THEN California
                 ELSE IF Upper(state) = <<"T","X">> THEN Houston ELSE WestMemphis } })

\* The table `distances` of _estimate_miles.
ESTIMATED_MILES ==
    Houston :> (
        <<"T","X">> :> 250 @@ <<"L","A">> :> 350 @@ <<"A","R">> :> 450 @@ <<"O","K">> :> 400 @@
        <<"N","M">> :> 650 @@ <<"M","S">> :> 500 @@ <<"A","L">> :> 600 @@ <<"T","N">> :> 650 @@
        <<"G","A">> :> 800 @@ <<"F","L">> :> 900 @@ <<"C","A">> :> 1500 @@ <<"V","A">> :> 1300 @@
        <<"N","Y">> :> 1600 @@ DefaultKey :> 800 )
    @@ WestMemphis :> (
        <<"A","R">> :> 50 @@ <<"T","N">> :> 100 @@ <<"M","S">> :> 150 @@ <<"M","O">> :> 300 @@
        <<"I","L">> :> 350 @@ <<"K","Y">> :> 350 @@ <<"A","L">> :> 350 @@ <<"I","N">> :> 450 @@
        <<"O","H">> :> 550 @@ <<"G","A">> :> 500 @@ <<"T","X">> :> 500 @@ <<"V","A">> :> 750 @@
        <<"N","C">> :> 650 @@ <<"F","L">> :> 700 @@ <<"P","A">> :> 850 @@ <<"N","Y">> :> 1000 @@
        <<"C","A">> :> 1800 @@ DefaultKey :> 600 )
    @@ California :> (
        <<"C","A">> :> 100 @@ <<"N","V">> :> 300 @@ <<"A","Z">> :> 500 @@ <<"O","R">> :> 450 @@
        <<"W","A">> :> 650 @@ <<"U","T">> :> 600 @@ <<"C","O">> :> 1000 @@ <<"T","X">> :> 1400 @@
        <<"I","D">> :> 700 @@ <<"V","A">> :> 2500 @@ <<"N","Y">> :> 2700 @@ <<"F","L">> :> 2500 @@
        DefaultKey :> 1500 )

estimate_miles(warehouse, state) ==
    Only({ Get(wh_distances, Upper(state), wh_distances[DefaultKey])
           : wh_distances \in {Get(ESTIMATED_MILES, warehouse, ESTIMATED_MILES[WestMemphis])} })

\* options.sort(key=lambda x: x['estimated_cost']): stable.
SortedOptions(options) ==
    Only({ [k \in 1..Len(options) |-> options[order[k]]]
           : order \in
               { CHOOSE p \in [1..Len(options) -> 1..Len(options)] :
                   /\ \A i, j \in 1..Len(options) : i # j => p[i] # p[j]
                   /\ \A i \in 1..(Len(options) - 1) :
                         \/ options[p[i]].estimated_cost < options[p[i + 1]].estimated_cost
                         \/ /\ options[p[i]].estimated_cost = options[p[i + 1]].estimated_cost
                            /\ p[i] < p[i + 1] } })

\* _fallback_analysis; the texts insight and action_needed are left out.
\* pallets in tenths, savings_pct in tenths of a percent.
fallback_analysis(destination, customer, city, state, weight_lbs, error, edge_case) ==
    Only({ [ success |-> TRUE,
             fallback_mode |-> TRUE,
             fallback_reason |-> error,
             destination |-> [ original |-> destination, customer |-> customer, city |-> city,
                               state |-> state, lookup_method |-> "state_level_historical" ],
             shipment |-> [ weight_lbs |-> weight_lbs,
                            pallets |-> RoundHalfEven(weight_lbs * 10, 920) ],
             routing_options |-> options,
             recommendation |->
                 [ best_warehouse |-> options[1].warehouse,
                   best_cost |-> options[1].estimated_cost,
                   best_miles |-> options[1].miles,
                   confidence |-> options[1].confidence,
                   cost_per_pallet |-> options[1].cost_per_pallet ],
             savings_analysis |->
                 [ vs_worst_option |-> options[3].estimated_cost - options[1].estimated_cost,
                   savings_pct |->
                       IF options[3].estimated_cost > 0
                       THEN RoundHalfEven(
                              (options[3].estimated_cost - options[1].estimated_cost) * 1000,
                              options[3].estimated_cost)
                       ELSE 0 ],
             edge_case_alert |-> edge_case ]
           : options \in
               { SortedOptions(
                   [ i \in 1..3 |->
                       Only({ [ warehouse |-> Warehouses[i],
                                miles |-> estimate_miles(Warehouses[i], state),
                                drive_time |-> estimate_miles(Warehouses[i], state) \div 50,
                                estimated_cost |-> cost_data.estimated_cost,
                                cost_per_lb |-> cost_data.rate_per_lb,
                                cost_per_pallet |-> cost_data.cost_per_pallet,
                                confidence |-> cost_data.confidence,
                                data_source |-> "historical_freight_2025" ]
                              : cost_data \in
                                  {get_state_based_cost(Warehouses[i], state, weight_lbs)} }) ]) } })

\* full_address (Step 3 of optimize_shipment).
FullAddress(parsed, place_result) ==
    IF ~place_result.success
    THEN IF parsed.state # <<>> THEN parsed.city \o <<",", " ">> \o parsed.state
         ELSE parsed.city
    ELSE Get(place_result, "address", parsed.city \o <<",", " ">> \o parsed.state)

\* place_info (Step 3 of optimize_shipment).
PlaceInfo(parsed, place_result) ==
    IF ~place_result.success
    THEN [ name |-> IF parsed.customer # <<>> THEN parsed.customer ELSE parsed.city,
           address |-> FullAddress(parsed, place_result),
           lookup_method |-> "fallback_city_state" ]
    ELSE [ name |-> Get(place_result, "name", parsed.customer),
           address |-> FullAddress(parsed, place_result),
           lookup_method |-> IF ~Get(place_result, "fallback", FALSE)
                             THEN "google_places" ELSE "fallback_city_state",
           from_cache |-> Get(place_result, "from_cache", FALSE) ]

\* One entry of `options` (Step 5), for weight_lbs # 0; cost_per_mile and
\* cost_per_pallet in cents.
RoutingOption(dist_info, weight_lbs, state) ==
    Only({ [ warehouse |-> dist_info.warehouse,
             miles |-> dist_info.miles,
             drive_time |-> dist_info.drive_time,
             delivery_days |-> dist_info.delivery_days,
             estimated_cost |-> cost_analysis.blended_cost,
             cost_breakdown |-> [ distance_based |-> cost_analysis.distance_cost,
                                  historical_based |-> cost_analysis.historical_cost,
                                  method_used |-> cost_analysis.primary_method ],
             cost_per_mile |-> IF dist_info.miles > 0
                               THEN RoundHalfEven(cost_analysis.blended_cost * 10, dist_info.miles)
                               ELSE 0,
             cost_per_pallet |-> RoundHalfEven(cost_analysis.blended_cost * 920, weight_lbs),
             confidence |-> cost_analysis.confidence ]
           : cost_analysis \in
               {maps_estimate_shipping_cost(dist_info.warehouse, dist_info.miles,
                                            weight_lbs, state)} })

\* Steps 5 and 6 and the response, for weight_lbs # 0; the text insight and
\* the processing time are left out.
OptimizedResult(destination, weight_lbs, parsed, place_info, distance_result, edge_case) ==
    Only({ [ success |-> TRUE,
             destination |->
                 [ original |-> destination,
                   customer |-> place_info.name,
                   city |-> parsed.city,
                   state |-> parsed.state,
                   full_address |-> place_info.address,
                   lookup_method |-> place_info.lookup_method,
                   cached |-> Get(place_info, "from_cache", FALSE)
                              \/ Get(distance_result, "from_cache", FALSE) ],
             shipment |->
                 [ weight_lbs |-> weight_lbs,
                   pallets |-> RoundHalfEven(weight_lbs * 10, 920),
                   type |-> IF weight_lbs >= 35000 THEN "FTL"
                            ELSE IF weight_lbs < 10000 THEN "LTL" ELSE "Partial" ],
             routing_options |-> options,
             recommendation |->
                 [ best_warehouse |-> options[1].warehouse,
                   best_cost |-> options[1].estimated_cost,
                   best_miles |-> options[1].miles,
                   best_drive_time |-> options[1].drive_time,
                   delivery_days |-> options[1].delivery_days,
                   confidence |-> options[1].confidence,
                   cost_per_pallet |-> options[1].cost_per_pallet ],
             alternatives |->
                 IF Len(options) > 1
                 THEN [ second_best |-> <<options[2].warehouse>>,
                        second_cost |-> <<options[2].estimated_cost>>,
                        additional_cost |-> options[2].estimated_cost - options[1].estimated_cost,
                        additional_miles |-> <<options[2].miles - options[1].miles>> ]
                 ELSE [ second_best |-> <<>>, second_cost |-> <<>>, additional_cost |-> 0,
                        additional_miles |-> <<>> ],
             savings_analysis |->
                 [ vs_worst_option |->
                       options[Len(options)].estimated_cost - options[1].estimated_cost,
                   vs_second_option |->
                       IF Len(options) > 1
                       THEN options[2].estimated_cost - options[1].estimated_cost ELSE 0,
                   savings_pct |->
                       IF options[Len(options)].estimated_cost > 0
                       THEN RoundHalfEven(
                              (options[Len(options)].estimated_cost
                               - options[1].estimated_cost) * 1000,
                              options[Len(options)].estimated_cost)
                       ELSE 0,
                   annual_impact_estimate |->
                       (options[Len(options)].estimated_cost - options[1].estimated_cost) * 12 ],
             routing_analysis |-> analyze_routing_decision(options[1], parsed.state),
             edge_case_alert |-> edge_case,
             meta |-> [ cache_hits |-> IF Get(place_info, "from_cache", FALSE)
                                          \/ Get(distance_result, "from_cache", FALSE)
                                       THEN 1 ELSE 0 ] ]
           : options \in
               { SortedOptions([ n \in 1..Len(distance_result.distances) |->
                                   RoutingOption(distance_result.distances[n], weight_lbs,
                                                 parsed.state) ]) } })

\* Step 4 with the failed lookup handed back as it is.
OptimizeFromAddress_error_returned(key, destination, weight_lbs, parsed, place, routes, t) ==
    Only({ IF ~distance.result.success
           THEN [ out |-> distance.result, cache |-> distance.cache ]
           ELSE IF weight_lbs = 0
           THEN [ out |-> [exception |-> "ZeroDivisionError"], cache |-> distance.cache ]
           ELSE [ out |-> OptimizedResult(destination, weight_lbs, parsed,
                                          PlaceInfo(parsed, place.result), distance.result,
                                          check_edge_case(parsed.city, parsed.state)),
                  cache |-> distance.cache ]
           : distance \in
               {calculate_distances(place.cache, key, FullAddress(parsed, place.result),
                                    routes, t)} })

\* Steps 4 to 6 of optimize_shipment, `place` being what find_business_address
\* gave.  With weight_lbs = 0 the first option's
\* `blended_cost / (weight_lbs / 920)` raises ZeroDivisionError; nothing in
\* optimize_shipment catches it.  `out` is the dict returned or the exception
\* raised, `cache` the cache left.
OptimizeFromAddress(key, destination, weight_lbs, parsed, place, routes, t) ==
    Only({ IF ~distance.result.success
           THEN [ out |-> fallback_analysis(destination, parsed.customer, parsed.city,
                                            parsed.state, weight_lbs, distance.result.error,
                                            check_edge_case(parsed.city, parsed.state)),
                  cache |-> distance.cache ]
           ELSE IF weight_lbs = 0
           THEN [ out |-> [exception |-> "ZeroDivisionError"], cache |-> distance.cache ]
           ELSE [ out |-> OptimizedResult(destination, weight_lbs, parsed,
                                          PlaceInfo(parsed, place.result), distance.result,
                                          check_edge_case(parsed.city, parsed.state)),
                  cache |-> distance.cache ]
           : distance \in
               {calculate_distances(place.cache, key, FullAddress(parsed, place.result),
                                    routes, t)} })

\* optimize_shipment(destination, weight_lbs) at time t with the cache c, the
\* Places request answering env.place and the Routes requests env.routes.
optimize_shipment(c, key, destination, weight_lbs, env, t) ==
    Only({ IF parsed.city = <<>> /\ parsed.state = <<>>
           THEN [ out |-> [ success |-> FALSE,
                            error |-> <<"Could not parse destination: ", destination>>,
                            hint |-> "Use format: 'CustomerName-City ST' (e.g., 'Georgia Power-Forest Park GA')" ],
                  cache |-> c ]
           ELSE Only({ OptimizeFromAddress(key, destination, weight_lbs, parsed, place,
                                           env.routes, t)
                       : place \in
                           {find_business_address(c, key, parsed.customer, parsed.city,
                                                  parsed.state, env.place, t)} })
           : parsed \in {parse_destination(destination)} })

\* One pass of the loop of batch_optimize: `results`, the two totals, and the
\* cache, after item n; an exception raised by optimize_shipment leaves the
\* loop and batch_optimize.
RECURSIVE BatchLoop(_, _, _, _, _)
BatchLoop(c, key, destinations, envs, t) ==
    IF destinations = <<>>
    THEN [ raised |-> FALSE, results |-> <<>>, total_best_cost |-> 0,
           total_worst_cost |-> 0, cache |-> c ]
    ELSE Only({
        IF "exception" \in DOMAIN one.out
        THEN [ raised |-> TRUE, exception |-> one.out.exception, cache |-> one.cache ]
        ELSE Only({
            IF rest.raised THEN rest
            ELSE IF one.out.success
            THEN [ raised |-> FALSE,
                   results |->
                     << [ destination |-> destinations[1].destination,
                          best_warehouse |-> one.out.recommendation.best_warehouse,
                          best_cost |-> one.out.recommendation.best_cost,
                          savings |->
                              one.out.routing_options[Len(one.out.routing_options)].estimated_cost
                              - one.out.recommendation.best_cost,
                          confidence |-> one.out.recommendation.confidence ] >>
                     \o rest.results,
                   total_best_cost |-> one.out.recommendation.best_cost + rest.total_best_cost,
                   total_worst_cost |->
                       one.out.routing_options[Len(one.out.routing_options)].estimated_cost
                       + rest.total_worst_cost,
                   cache |-> rest.cache ]
            ELSE [ raised |-> FALSE,
                   results |-> << [ destination |-> destinations[1].destination,
                                    error |-> one.out.error ] >> \o rest.results,
                   total_best_cost |-> rest.total_best_cost,
                   total_worst_cost |-> rest.total_worst_cost,
                   cache |-> rest.cache ]
            : rest \in {BatchLoop(one.cache, key, Tail(destinations), Tail(envs), t)} })
        : one \in {optimize_shipment(c, key, destinations[1].destination,
                                     destinations[1].weight_lbs, envs[1], t)} })

\* batch_optimize(destinations): the dict returned or the exception raised,
\* and the cache left.
batch_optimize(c, key, destinations, envs, t) ==
    Only({ IF loop.raised
           THEN [ out |-> [exception |-> loop.exception], cache |-> loop.cache ]
           ELSE [ out |->
                    [ success |-> TRUE,
                      results |-> loop.results,
                      summary |->
                        [ destinations_analyzed |-> Len(destinations),
                          successful |->
                              Cardinality({ n \in 1..Len(loop.results) :
                                              "error" \notin DOMAIN loop.results[n] }),
                          total_optimized_cost |-> loop.total_best_cost,
                          total_worst_case_cost |-> loop.total_worst_cost,
                          total_savings |-> loop.total_worst_cost - loop.total_best_cost ] ],
                  cache |-> loop.cache ]
           : loop \in {BatchLoop(c, key, destinations, envs, t)} })

ApiKeyInputs == { "", "your-google-maps-api-key-here", "configured-key" }

ElPaso == <<"B","-","E","l"," ","P","a","s","o"," ","T","X">>
Memphis == <<"M","e","m","p","h","i","s">>
Reno == <<"R","e","n","o"," ","N","V">>

\* The last is not parseable: neither a city nor a state.
MapsDestinationInputs == { ElPaso, Memphis, Reno, <<" ">> }

\* What the Places request and the three Routes requests of one
\* optimize_shipment answer.
Route(meters, seconds) == [kind |-> "route", distanceMeters |-> meters, duration |-> seconds]

Environments ==
    { [ place |-> [kind |-> "OK", name |-> <<"B">>, address |-> <<"1"," ","M","a","i","n">>],
        routes |-> << Route(804670, 28800), Route(160934, 7200), Route(1931208, 75600) >> ],
      [ place |-> [kind |-> "ZERO_RESULTS"],
        routes |-> << Route(0, 0), [kind |-> "empty"], [kind |-> "empty"] >> ],
      [ place |-> [kind |-> "status", status |-> "REQUEST_DENIED"],
        routes |-> << [kind |-> "error", message |-> "API key not valid"],
                      Route(160934, 7200), Route(1931208, 75600) >> ],
      [ place |-> [kind |-> "exception", message |-> "Read timed out"],
        routes |-> << Route(804670, 28800), [kind |-> "exception", message |-> "Read timed out"],
                      Route(1931208, 75600) >> ],
      [ place |-> [kind |-> "OK", name |-> <<"B">>, address |-> <<"1"," ","M","a","i","n">>],
        routes |-> << [kind |-> "empty"], [kind |-> "empty"], [kind |-> "empty"] >> ] }

OptimizeShipment ==
    \E d \in MapsDestinationInputs, lbs \in MapsWeightInputs, env \in Environments :
        /\ call.op = "none"
        /\ call' = [op |-> "optimize_shipment", destination |-> d, weight_lbs |-> lbs,
                    env |-> env]
        /\ \E r \in {optimize_shipment(cache, GOOGLE_MAPS_API_KEY, d, lbs, env, now)} :
              /\ result' = r.out
              /\ cache' = r.cache
        /\ UNCHANGED <<files, now, GOOGLE_MAPS_API_KEY, session>>

BatchInputs ==
    { <<>>,
      << [destination |-> ElPaso, weight_lbs |-> 40000] >>,
      << [destination |-> ElPaso, weight_lbs |-> 40000],
         [destination |-> Memphis, weight_lbs |-> 500] >>,
      << [destination |-> <<" ">>, weight_lbs |-> 500],
         [destination |-> ElPaso, weight_lbs |-> 40000] >>,
      << [destination |-> Memphis, weight_lbs |-> 0],
         [destination |-> ElPaso, weight_lbs |-> 40000] >> }

BatchOptimize ==
    \E destinations \in BatchInputs :
        \E envs \in [1..Len(destinations) -> Environments] :
            /\ call.op = "none"
            /\ call' = [op |-> "batch_optimize", destinations |-> destinations, envs |-> envs]
            /\ \E r \in {batch_optimize(cache, GOOGLE_MAPS_API_KEY, destinations, envs, now)} :
                  /\ result' = r.out
                  /\ cache' = r.cache
            /\ UNCHANGED <<files, now, GOOGLE_MAPS_API_KEY, session>>

\* The requests of one hour: no entry of the cache expires.
InitOptimizer ==
    /\ call = [op |-> "none"]
    /\ result = None
    /\ cache = <<>>
    /\ now = 0
    /\ GOOGLE_MAPS_API_KEY \in ApiKeyInputs
    /\ InitSession
    /\ freight = <<>>
    /\ sales = <<>>

NextOptimizer == GetStateBasedCost \/ OptimizeShipment \/ BatchOptimize \/ Return

SpecOptimizer == InitOptimizer /\ [][NextOptimizer]_vars

\* The destination has a city or a state.
Parseable(destination) ==
    \E parsed \in {parse_destination(destination)} :
        parsed.city # <<>> \/ parsed.state # <<>>

\* What calculate_distances gives inside optimize_shipment(destination, ..)
\* called with the cache c.
DistanceLookup(c, key, destination, env, t) ==
    Only({ Only({ calculate_distances(place.cache, key, FullAddress(parsed, place.result),
                                      env.routes, t).result
                  : place \in {find_business_address(c, key, parsed.customer, parsed.city,
                                                     parsed.state, env.place, t)} })
           : parsed \in {parse_destination(destination)} })

\* The error a distance lookup that asks the service ends with, <<>> if none:
\* the key is missing, or the first warehouse that has an error payload or
\* whose request raises, or no warehouse has a route.
LookupFailure(key, routes) ==
    IF KeyNotConfigured(key) THEN <<"Google Maps API key not configured">>
    ELSE IF \E i \in 1..3 : routes[i].kind \in {"error", "exception"}
    THEN LET i == CHOOSE i \in 1..3 :
                     /\ routes[i].kind \in {"error", "exception"}
                     /\ \A j \in 1..(i - 1) : routes[j].kind \notin {"error", "exception"}
         IN  IF routes[i].kind = "error" THEN <<"Routes API: ", routes[i].message>>
             ELSE <<"Routes API error for ", WarehouseText[i], ": ", routes[i].message>>
    ELSE IF \A i \in 1..3 : routes[i].kind # "route" THEN <<"No routes calculated">>
    ELSE <<>>

\* r is a successful result in fallback mode with the given reason, whose
\* options are the three warehouses at their historical rates for the state.
IsFallback(r, reason, state, weight_lbs) ==
    /\ "exception" \notin DOMAIN r
    /\ r.success
    /\ "fallback_mode" \in DOMAIN r
    /\ r.fallback_mode
    /\ r.fallback_reason = reason
    /\ Len(r.routing_options) = 3
    /\ { r.routing_options[i].warehouse : i \in 1..3 } = { Houston, WestMemphis, California }
    /\ \A i \in 1..3 :
          \E rates \in {MAPS_COST_RATES[r.routing_options[i].warehouse]} :
              /\ r.routing_options[i].cost_per_lb
                    = Get(rates, Upper(state), rates[DefaultKey])
              /\ r.routing_options[i].estimated_cost
                    = RoundHalfEven(weight_lbs * Get(rates, Upper(state), rates[DefaultKey]), 100)

\* C15: when the distance lookup of an optimize_shipment with a parseable
\* destination does not succeed, the call returns (raises nothing) a
\* successful result with fallback_mode true, fallback_reason the lookup's
\* error, and the three warehouses as options at historical rates; and a
\* lookup not served from the cache does not succeed, with the matching
\* error, when the key is missing, a warehouse has an error payload or its
\* request raises, or no warehouse has a route.
DistanceFailureFallsBackToHistorical ==
    [][ (call'.op = "optimize_shipment" /\ Parseable(call'.destination)) =>
            \E lookup \in {DistanceLookup(cache, GOOGLE_MAPS_API_KEY, call'.destination,
                                          call'.env, now)} :
                /\ ~lookup.success =>
                      IsFallback(result', lookup.error,
                                 parse_destination(call'.destination).state,
                                 call'.weight_lbs)
                /\ ( /\ ~Get(lookup, "from_cache", FALSE)
                     /\ LookupFailure(GOOGLE_MAPS_API_KEY, call'.env.routes) # <<>> ) =>
                      /\ ~lookup.success
                      /\ lookup.error = LookupFailure(GOOGLE_MAPS_API_KEY, call'.env.routes) ]_vars

\* The Routes request for West Memphis raised and the result is the fallback
\* carrying that error.
TransportExceptionFallbackSeen ==
    /\ call.op = "optimize_shipment"
    /\ call.destination = ElPaso
    /\ call.env.routes[2].kind = "exception"
    /\ "fallback_mode" \in DOMAIN result
    /\ result.success
    /\ result.fallback_reason
          = <<"Routes API error for ", "West Memphis", ": ", "Read timed out">>
    /\ Len(result.routing_options) = 3

RECURSIVE SumBestCost(_)
SumBestCost(results) ==
    IF results = <<>> THEN 0
    ELSE (IF "error" \in DOMAIN results[1] THEN 0 ELSE results[1].best_cost)
         + SumBestCost(Tail(results))

RECURSIVE SumWorstCost(_)
SumWorstCost(results) ==
    IF results = <<>> THEN 0
    ELSE (IF "error" \in DOMAIN results[1] THEN 0
          ELSE results[1].best_cost + results[1].savings)
         + SumWorstCost(Tail(results))

\* C14: batch_optimize returns a results list with one entry per input item,
\* an item that fails giving an error entry, and its totals are the sums of
\* best-case and worst-case cost over the successful items.
BatchHasOneEntryPerItem ==
    call.op = "batch_optimize" =>
        /\ "exception" \notin DOMAIN result
        /\ Len(result.results) = Len(call.destinations)
        /\ \A n \in 1..Len(call.destinations) :
              result.results[n].destination = call.destinations[n].destination
        /\ result.summary.total_optimized_cost = SumBestCost(result.results)
        /\ result.summary.total_worst_case_cost = SumWorstCost(result.results)

\* C21: the state_based_default optimize_shipment reports in its routing
\* analysis is get_warehouse_for_state of the destination's state.
StateBasedDefaultIsWarehouseForState ==
    (call.op = "optimize_shipment" /\ "routing_analysis" \in DOMAIN result) =>
        /\ result.routing_analysis.state_based_default
              = get_warehouse_for_state(result.destination.state)
        /\ result.routing_analysis.recommendations_match
              = (result.recommendation.best_warehouse
                   = get_warehouse_for_state(result.destination.state))

\* C22: a successful optimize_shipment result that is not a fallback has
\* exactly three routing options, one for each warehouse.
NormalSuccessHasThreeOptions ==
    ( /\ call.op = "optimize_shipment"
      /\ "success" \in DOMAIN result
      /\ result.success
      /\ "fallback_mode" \notin DOMAIN result ) =>
        /\ Len(result.routing_options) = 3
        /\ { result.routing_options[i].warehouse : i \in 1..Len(result.routing_options) }
              = { Houston, WestMemphis, California }

\* C30: every entry of the optimizer cache is a successful result.
CacheHoldsOnlySuccesses ==
    \A k \in DOMAIN cache : cache[k].data.success

\* The place lookup and the distance lookup of a call failed, the service
\* having been asked, and neither left an entry in a cache that has others.
FailedLookupsNotCachedSeen ==
    /\ call.op = "optimize_shipment"
    /\ call.destination = ElPaso
    /\ GOOGLE_MAPS_API_KEY = "configured-key"
    /\ call.env.place.kind = "status"
    /\ "fallback_mode" \in DOMAIN result
    /\ cache # <<>>
    /\ cache_key(<<"p","l","a","c","e","s">>,
                 <<<<"B">>, <<"E","l"," ","P","a","s","o">>, <<"T","X">>>>) \notin DOMAIN cache
    /\ cache_key(<<"d","i","s","t","a","n","c","e","s">>,
                 << <<"E","l"," ","P","a","s","o",","," ","T","X">> >>) \notin DOMAIN cache

(***************************************************************************)
(* src/google_maps.py: parse_destination and the cost blend on their own   *)
(***************************************************************************)
ParseInputs ==
    { ElPaso, Memphis, Reno, <<" ">>, <<"T","X">>,
      <<" ","a","-","b","-","c"," ","N","V"," ">>,
      <<"X","-","D","o","c","k"," ","B">>,
      <<"X","-","T","X">>, <<"o","k">> }

ParseDestination ==
    \E d \in ParseInputs :
        /\ call.op = "none"
        /\ call' = [op |-> "parse_destination", destination |-> d]
        /\ result' = parse_destination(d)
        /\ UNCHANGED <<files, maps, session>>

\* Tenths of a mile.
BlendMilesInputs == { 0, 1000, 12345 }

BlendWeightInputs == { 0, 9999, 10000, 19999, 20000, 40000 }

EstimateByDistance ==
    \E w \in {Houston, WestMemphis, California}, miles \in BlendMilesInputs,
       lbs \in BlendWeightInputs, s \in MapsStateInputs :
        /\ call.op = "none"
        /\ call' = [op |-> "google_maps.estimate_shipping_cost", warehouse |-> w,
                    miles |-> miles, weight_lbs |-> lbs, state |-> s]
        /\ result' = maps_estimate_shipping_cost(w, miles, lbs, s)
        /\ UNCHANGED <<files, maps, session>>

InitBlend ==
    /\ call = [op |-> "none"]
    /\ result = None
    /\ InitMaps
    /\ InitSession
    /\ freight = <<>>
    /\ sales = <<>>

NextBlend == ParseDestination \/ EstimateByDistance \/ GetStateBasedCost \/ Return

SpecBlend == InitBlend /\ [][NextBlend]_vars

\* C27: the state parse_destination returns is empty or the last two
\* characters of the trimmed input, two capitals; the customer is the text
\* before the first hyphen (empty without a hyphen) and the city the text after
\* it, the state removed.
ParsedStateIsTwoCapitalsOrEmpty ==
    call.op = "parse_destination" =>
        \E d \in {Strip(call.destination)} :
            /\ \/ result.state = <<>>
               \/ /\ Len(result.state) = 2
                  /\ IsUpperAlpha(result.state)
                  /\ Len(d) >= 2
                  /\ result.state = SubSeq(d, Len(d) - 1, Len(d))
            /\ \E rest \in {IF result.state = <<>> THEN d
                            ELSE Strip(SubSeq(d, 1, Len(d) - 2))} :
                  IF \E i \in 1..Len(rest) : rest[i] = "-"
                  THEN \E h \in 1..Len(rest) :
                          /\ rest[h] = "-"
                          /\ \A j \in 1..(h - 1) : rest[j] # "-"
                          /\ result.customer = Strip(SubSeq(rest, 1, h - 1))
                          /\ result.city = Strip(SubSeq(rest, h + 1, Len(rest)))
                  ELSE result.customer = <<>> /\ result.city = rest

\* C23: the blended cost is 0.7 x historical + 0.3 x distance when the state
\* is a key of the warehouse's table (confidence HIGH), 0.7 x distance + 0.3 x
\* historical otherwise (MEDIUM); the distance cost is miles x 3.50 $, x 1.5
\* below 10000 lb, x 1.2 from 10000 lb to below 20000 lb.  Miles in tenths,
\* costs in cents.
BlendWeighsHistorical70WhenHigh ==
    call.op = "google_maps.estimate_shipping_cost" =>
        \E per_mile \in {IF call.weight_lbs < 10000 THEN (350 * 15) \div 10
                         ELSE IF call.weight_lbs < 20000 THEN (350 * 12) \div 10
                         ELSE 350},
           high \in {Upper(call.state) \in DOMAIN MAPS_COST_RATES[call.warehouse] \ {DefaultKey}} :
            /\ result.confidence = IF high THEN "HIGH" ELSE "MEDIUM"
            /\ result.distance_cost = RoundHalfEven(call.miles * per_mile, 10)
            /\ result.historical_cost
                  = RoundHalfEven(call.weight_lbs * result.cost_per_lb, 100)
            /\ result.blended_cost
                  = IF high
                    THEN RoundHalfEven(70 * result.historical_cost
                                       + 3 * call.miles * per_mile, 100)
                    ELSE RoundHalfEven(7 * call.miles * per_mile
                                       + 30 * result.historical_cost, 100)

\* The blend at 10000 lb for a state in the table, and for a state outside it.
BlendAtTenThousandSeen ==
    /\ call.op = "google_maps.estimate_shipping_cost"
    /\ call.weight_lbs = 10000
    /\ call.miles = 1000
    /\ call.warehouse = Houston
    /\ call.state = <<"T","X">>
    /\ result.confidence = "HIGH"
    /\ result.blended_cost = 31990

(***************************************************************************)
(* Distribution: get_distribution                                          *)
(*                                                                         *)
(* A row of the sales table here carries the columns get_distribution      *)
(* reads: country, state, product, quantity (<<>> when the cell is empty). *)
(***************************************************************************)

\* int(quantity * 0.10), int(quantity * 0.25), int(quantity * 0.65)
DefaultDistribution(quantity) ==
    California :> ((quantity * 10) \div 100)
    @@ Houston :> ((quantity * 25) \div 100)
    @@ WestMemphis :> ((quantity * 65) \div 100)

\* df_usa rows whose Product contains product_name, case ignored.
ProductRows(table, product_name) ==
    { i \in 1..Len(table) :
        /\ table[i].country = "USA"
        /\ Contains(Upper(table[i].product), Upper(product_name)) }

\* warehouse_dist.get(wh, 0): the Quantity of the product's rows whose State
\* routes to wh, an empty cell counting 0.
RECURSIVE WarehouseQuantity(_, _, _)
WarehouseQuantity(table, rows, wh) ==
    IF rows = {} THEN 0
    ELSE LET i == CHOOSE i \in rows : TRUE
         IN  (IF get_warehouse_for_state(table[i].state) = wh /\ table[i].quantity # <<>>
              THEN table[i].quantity[1] ELSE 0)
             + WarehouseQuantity(table, rows \ {i}, wh)

\* int(quantity * pct) for the three warehouses, West Memphis then taking the
\* difference to quantity.
HistoricalDistribution(table, rows, quantity) ==
    Only({ Only({ Only({
        California :> ((quantity * ca) \div total_qty)
        @@ Houston :> ((quantity * hou) \div total_qty)
        @@ WestMemphis :> ( (quantity * wm) \div total_qty
                            + ( quantity - ( (quantity * ca) \div total_qty
                                             + (quantity * hou) \div total_qty
                                             + (quantity * wm) \div total_qty ) ) )
        : total_qty \in {IF ca + hou + wm = 0 THEN 1 ELSE ca + hou + wm} })
        : wm \in {WarehouseQuantity(table, rows, WestMemphis)} })
        : ca \in {WarehouseQuantity(table, rows, California)},
          hou \in {WarehouseQuantity(table, rows, Houston)} })

get_distribution(table, product_name, quantity, customer_state) ==
    IF customer_state # <<>>
    THEN Only({ [ product |-> product_name,
                  total_quantity |-> quantity,
                  distribution |->
                      California :> (IF warehouse = California THEN quantity ELSE 0)
                      @@ Houston :> (IF warehouse = Houston THEN quantity ELSE 0)
                      @@ WestMemphis :> (IF warehouse = WestMemphis THEN quantity ELSE 0),
                  method |-> "State-based routing",
                  confidence |-> "HIGH" ]
                : warehouse \in {get_warehouse_for_state(customer_state)} })
    ELSE IF table = <<>>
    THEN [ product |-> product_name,
           total_quantity |-> quantity,
           distribution |-> DefaultDistribution(quantity),
           method |-> "Default distribution (no historical data)",
           confidence |-> "LOW" ]
    ELSE Only({
        IF Cardinality(product_df) < 5
        THEN [ product |-> product_name,
               total_quantity |-> quantity,
               distribution |-> DefaultDistribution(quantity),
               method |-> <<"Default distribution (only ", Cardinality(product_df),
                            " historical orders)">>,
               confidence |-> "MEDIUM" ]
        ELSE [ product |-> product_name,
               total_quantity |-> quantity,
               distribution |-> HistoricalDistribution(table, product_df, quantity),
               historical_orders |-> Cardinality(product_df),
               method |-> "Historical pattern analysis",
               confidence |-> IF Cardinality(product_df) > 20 THEN "HIGH" ELSE "MEDIUM" ]
        : product_df \in {ProductRows(table, product_name)} })

DistributionRow(country, state, product, quantity) ==
    [ country |-> country, state |-> state, product |-> product, quantity |-> quantity ]

DistributionRows ==
    << DistributionRow("USA", <<"T","e","x","a","s">>, <<"N"," ","1","4">>, <<10>>),
       DistributionRow("USA", <<"C","A">>, <<"N"," ","1","4">>, <<5>>),
       DistributionRow("USA", <<"V","i","r","g","i","n","i","a">>, <<"n"," ","1","4"," ","D","C">>, <<7>>),
       DistributionRow("USA", <<"O","h","i","o">>, <<"N"," ","1","4">>, <<>>),
       DistributionRow("USA", <<"T","X">>, <<"N"," ","1","4">>, <<3>>),
       DistributionRow("Canada", <<"O","N">>, <<"N"," ","1","4">>, <<50>>),
       DistributionRow("USA", <<"I","D">>, <<"N"," ","2","1">>, <<4>>) >>

\* What load_sales_data() returns: nothing, or the first n rows.
DistributionTables == { SubSeq(DistributionRows, 1, n) : n \in {0, 2, 5, 7} }

DistributionProductInputs == { <<"n"," ","1","4">>, <<"N"," ","2","1">> }
DistributionQuantityInputs == { 0, 1, 2, 3, 7, 10, 100, 999 }
DistributionStateInputs == { <<>>, <<"T","X">>, <<"o","r","e","g","o","n">>, <<"O","H">> }

GetDistribution ==
    \E p \in DistributionProductInputs, q \in DistributionQuantityInputs,
       st \in DistributionStateInputs :
        /\ call.op = "none"
        /\ call' = [op |-> "get_distribution", product_name |-> p, quantity |-> q,
                    customer_state |-> st]
        /\ result' = get_distribution(sales, p, q, st)
        /\ UNCHANGED <<files, maps, session>>

InitDistribution ==
    /\ call = [op |-> "none"]
    /\ result = None
    /\ InitMaps
    /\ InitSession
    /\ freight = <<>>
    /\ sales \in DistributionTables

NextDistribution == GetDistribution \/ Return

SpecDistribution == InitDistribution /\ [][NextDistribution]_vars

\* C29: in every branch of get_distribution the quantities of the three
\* warehouses sum to total_quantity.
DistributionSumsToTotal ==
    call.op = "get_distribution" =>
        result.distribution[California] + result.distribution[Houston]
          + result.distribution[WestMemphis] = result.total_quantity

(***************************************************************************)
(* Forecast: forecast_demand                                               *)
(*                                                                         *)
(* A row carries country, product, quantity (<<>> when not a number) and,  *)
(* when the table has a date column, date: <<>> when it does not parse,    *)
(* else <<[y, m]>>, the year and month of the timestamp.                   *)
(***************************************************************************)

\* date_col: a column whose name contains 'date' or 'created'.
HasDateColumn(table) == "date" \in DOMAIN table[1]

\* The USA rows with a valid date.
ValidDates(table) ==
    { i \in 1..Len(table) : table[i].country = "USA" /\ table[i].date # <<>> }

\* Months since year 0 of a row's date.
MonthIndex(row) == row.date[1].y * 12 + row.date[1].m

\* max(1, (max.year - min.year) * 12 + (max.month - min.month) + 1) over the
\* rows `dated`, which is not empty.
MonthSpan(table, dated) ==
    Only({ IF hi - lo + 1 < 1 THEN 1 ELSE hi - lo + 1
           : lo \in {CHOOSE a \in {MonthIndex(table[i]) : i \in dated} :
                        \A b \in {MonthIndex(table[i]) : i \in dated} : a <= b},
             hi \in {CHOOSE a \in {MonthIndex(table[i]) : i \in dated} :
                        \A b \in {MonthIndex(table[i]) : i \in dated} : b <= a} })

\* data_months: over the valid dates of df_usa, 34 without any.
DataMonths(table) ==
    IF HasDateColumn(table) /\ ValidDates(table) # {}
    THEN MonthSpan(table, ValidDates(table))
    ELSE 34

\* product_df['Quantity'].sum()
RECURSIVE TotalQuantity(_, _)
TotalQuantity(table, rows) ==
    IF rows = {} THEN 0
    ELSE LET i == CHOOSE i \in rows : TRUE
         IN  (IF table[i].quantity # <<>> THEN table[i].quantity[1] ELSE 0)
             + TotalQuantity(table, rows \ {i})

\* monthly_avg_orders in tenths.
forecast_demand(table, product_name, months) ==
    IF table = <<>> THEN [error |-> <<"Could not load sales data">>]
    ELSE Only({
        IF Cardinality(product_df) < 5
        THEN [ product |-> product_name,
               error |-> <<"Not enough historical data (", Cardinality(product_df), " orders)">>,
               recommendation |-> "Use default distribution" ]
        ELSE Only({
            [ product |-> product_name,
              forecast_period |-> months,
              predicted_quantity |-> (total_quantity * months) \div data_months,
              predicted_orders |-> (Cardinality(product_df) * months) \div data_months,
              monthly_avg_quantity |-> total_quantity \div data_months,
              monthly_avg_orders |-> RoundHalfEven(Cardinality(product_df) * 10, data_months),
              historical_total_quantity |-> total_quantity,
              historical_total_orders |-> Cardinality(product_df),
              data_months_analyzed |-> data_months,
              confidence |-> IF Cardinality(product_df) > 50 THEN "HIGH" ELSE "MEDIUM" ]
            : total_quantity \in {TotalQuantity(table, product_df)},
              data_months \in {DataMonths(table)} })
        : product_df \in {ProductRows(table, product_name)} })

ForecastRow(country, product, quantity, date) ==
    [ country |-> country, product |-> product, quantity |-> quantity, date |-> date ]

YearMonth(y, m) == <<[y |-> y, m |-> m]>>

ForecastRows ==
    << ForecastRow("USA", <<"N"," ","1","4">>, <<10>>, YearMonth(2024, 1)),
       ForecastRow("USA", <<"N"," ","1","4">>, <<5>>, YearMonth(2024, 1)),
       ForecastRow("USA", <<"n"," ","1","4"," ","D","C">>, <<7>>, YearMonth(2024, 2)),
       ForecastRow("USA", <<"N"," ","1","4">>, <<>>, <<>>),
       ForecastRow("USA", <<"N"," ","1","4">>, <<3>>, YearMonth(2024, 3)),
       ForecastRow("USA", <<"N"," ","2","1">>, <<4>>, YearMonth(2023, 1)),
       ForecastRow("Canada", <<"N"," ","1","4">>, <<50>>, YearMonth(2020, 1)) >>

\* The same rows with no date parsing.
UndatedRows ==
    [ i \in 1..Len(ForecastRows) |->
        ForecastRow(ForecastRows[i].country, ForecastRows[i].product,
                    ForecastRows[i].quantity, <<>>) ]

\* What load_sales_data() returns: nothing, the first n rows, the rows with
\* no date that parses, or rows without a date column.
ForecastTables ==
    { SubSeq(ForecastRows, 1, n) : n \in {0, 4, 5, 6, 7} }
    \cup { SubSeq(UndatedRows, 1, 5), SubSeq(DistributionRows, 1, 5) }

ForecastProductInputs == { <<"n"," ","1","4">>, <<"N"," ","2","1">>, <<"z","z">> }
ForecastMonthsInputs == { 1, 2, 3, 6, 12 }

ForecastDemand ==
    \E p \in ForecastProductInputs, months \in ForecastMonthsInputs :
        /\ call.op = "none"
        /\ call' = [op |-> "forecast_demand", product_name |-> p, months |-> months]
        /\ result' = forecast_demand(sales, p, months)
        /\ UNCHANGED <<files, maps, session>>

InitForecast ==
    /\ call = [op |-> "none"]
    /\ result = None
    /\ InitMaps
    /\ InitSession
    /\ freight = <<>>
    /\ sales \in ForecastTables

NextForecast == ForecastDemand \/ Return

SpecForecast == InitForecast /\ [][NextForecast]_vars

\* The records matched to the call's product, and those of them with a valid
\* date.
ForecastMatched == ProductRows(sales, call.product_name)
ForecastMatchedDated ==
    IF HasDateColumn(sales) THEN ForecastMatched \cap ValidDates(sales) ELSE {}

\* C24: the month span of a forecast is the span of the valid dates of the
\* records matched to the product, 34 when there is none; the predicted
\* quantity and order count are the integer part of (matched total / span)
\* x months.
ForecastSpanIsOfMatchedRecords ==
    (call.op = "forecast_demand" /\ "predicted_quantity" \in DOMAIN result) =>
        \E span \in {IF ForecastMatchedDated # {} THEN MonthSpan(sales, ForecastMatchedDated)
                     ELSE 34} :
            /\ result.data_months_analyzed = span
            /\ result.predicted_quantity
                  = (TotalQuantity(sales, ForecastMatched) * call.months) \div span
            /\ result.predicted_orders
                  = (Cardinality(ForecastMatched) * call.months) \div span

(***************************************************************************)
(* Cost savings: analyze_cost_savings                                      *)
(*                                                                         *)
(* Dollar amounts are in cents, rates in 1e-4 $/lb, percentages in tenths. *)
(***************************************************************************)

\* get_state: the last two characters, upper-cased, when they are letters.
get_state(dest) ==
    Only({ IF Len(d) >= 2 /\ IsUpperAlpha(Upper(SubSeq(d, Len(d) - 1, Len(d))))
           THEN Upper(SubSeq(d, Len(d) - 1, Len(d)))
           ELSE <<>>
           : d \in {Strip(dest)} })

\* The code point order of the characters the destinations are written in.
CodePointOrder == <<" ", "-">> \o Digits \o UpperLetters \o LowerLetters
CodePoint(c) == CHOOSE i \in 1..Len(CodePointOrder) : CodePointOrder[i] = c

\* a < b for strings, as groupby orders its keys.
RECURSIVE StringBefore(_, _)
StringBefore(a, b) ==
    IF b = <<>> THEN FALSE
    ELSE IF a = <<>> THEN TRUE
    ELSE IF a[1] # b[1] THEN CodePoint(a[1]) < CodePoint(b[1])
    ELSE StringBefore(Tail(a), Tail(b))

\* One entry of top_destinations: the group of a destination.
DestinationGroup(table, rows, dest) ==
    [ destination |-> Prefix(dest, 40),
      weight_lbs |-> SumOver(table, {i \in rows : table[i].destination = dest}, "weight"),
      actual_cost |-> SumOver(table, {i \in rows : table[i].destination = dest}, "cost") ]

\* groupby('destination').agg(sum).sort_values('weight', ascending=False):
\* heaviest first, equal weights in key order.
RECURSIVE ByWeight(_, _, _)
ByWeight(table, rows, dests) ==
    IF dests = {} THEN <<>>
    ELSE Only({ <<DestinationGroup(table, rows, first)>>
                    \o ByWeight(table, rows, dests \ {first})
                : first \in { CHOOSE d \in dests : \A e \in dests \ {d} :
                    \/ DestinationGroup(table, rows, d).weight_lbs
                         > DestinationGroup(table, rows, e).weight_lbs
                    \/ /\ DestinationGroup(table, rows, d).weight_lbs
                            = DestinationGroup(table, rows, e).weight_lbs
                       /\ StringBefore(d, e) } })

\* .head(5)
TopDestinations(table, rows) ==
    Prefix(ByWeight(table, rows, {table[i].destination : i \in rows}), 5)

\* Scenario 1: Texas shipped from West Memphis.
RoutingScenario(table, df_wm) ==
    Only({ [ name |-> "Routing Optimization",
             description |-> "Ship Texas orders from Houston instead of West Memphis",
             actual_data |->
               [ texas_volume_lbs |-> SumOver(table, tx_from_wm, "weight"),
                 texas_shipments |-> Cardinality(tx_from_wm),
                 actual_cost_paid |-> SumOver(table, tx_from_wm, "cost"),
                 estimated_from_houston |->
                     RoundHalfEven(SumOver(table, tx_from_wm, "weight") * houston_to_tx_rate, 100),
                 top_destinations |-> TopDestinations(table, tx_from_wm) ],
             rates |->
               [ west_memphis_to_tx |-> wm_to_tx_rate,
                 houston_to_tx |-> houston_to_tx_rate,
                 savings_per_lb |-> wm_to_tx_rate - houston_to_tx_rate ],
             annual_opportunity |->
               [ texas_volume_lbs |-> SumOver(table, tx_from_wm, "weight"),
                 potential_savings |->
                     RoundHalfEven(SumOver(table, tx_from_wm, "weight")
                                     * (wm_to_tx_rate - houston_to_tx_rate), 100),
                 savings_pct |->
                     IF wm_to_tx_rate > 0
                     THEN RoundHalfEven((wm_to_tx_rate - houston_to_tx_rate) * 1000,
                                        wm_to_tx_rate)
                     ELSE 0 ],
             examples |->
               << [ example |-> "Texas truckload (40,000 lbs)",
                    from_west_memphis |-> RoundHalfEven(40000 * wm_to_tx_rate, 100),
                    from_houston |-> RoundHalfEven(40000 * houston_to_tx_rate, 100),
                    savings |->
                        RoundHalfEven(40000 * (wm_to_tx_rate - houston_to_tx_rate), 100) ] >> ]
           : tx_from_wm \in {{ i \in df_wm : get_state(table[i].destination) = <<"T","X">> }},
             wm_to_tx_rate \in {Get(COST_RATES[WestMemphis], <<"T","X">>, 1042)},
             houston_to_tx_rate \in {Get(COST_RATES[Houston], <<"T","X">>, 277)} })

east_coast_states ==
    << <<"V","A">>, <<"N","C">>, <<"S","C">>, <<"G","A">>, <<"F","L">>, <<"M","D">>,
       <<"P","A">>, <<"N","J">>, <<"N","Y">>, <<"C","T">>, <<"M","A">>, <<"D","E">> >>

\* Scenario 2: the East Coast volume of West Memphis; avg_wm_rate 0.0925,
\* estimated_local_rate 0.035, coverage_pct 0.65.
EastCoastScenario(table, df_wm) ==
    Only({ [ name |-> "East Coast Warehouse",
             description |-> "Add warehouse to serve East Coast locally",
             actual_data |->
               [ east_coast_volume_lbs |-> SumOver(table, ec_from_wm, "weight"),
                 east_coast_shipments |-> Cardinality(ec_from_wm),
                 actual_cost_paid |-> SumOver(table, ec_from_wm, "cost"),
                 top_destinations |-> TopDestinations(table, ec_from_wm) ],
             with_east_coast |->
               [ estimated_local_rate |-> 350,
                 coverage_states |-> Prefix(east_coast_states, 7),
                 estimated_coverage_pct |-> 65 ],
             savings_estimate |->
               [ covered_volume |-> (SumOver(table, ec_from_wm, "weight") * 65) \div 100,
                 current_cost |->
                     RoundHalfEven(SumOver(table, ec_from_wm, "weight") * 65 * 925, 10000),
                 new_cost |->
                     RoundHalfEven(SumOver(table, ec_from_wm, "weight") * 65 * 350, 10000),
                 annual_savings |->
                     RoundHalfEven(SumOver(table, ec_from_wm, "weight") * 65 * (925 - 350),
                                   10000),
                 savings_pct |-> RoundHalfEven((925 - 350) * 1000, 925) ] ]
           : ec_from_wm \in {{ i \in df_wm :
                 \E j \in 1..Len(east_coast_states) :
                     east_coast_states[j] = get_state(table[i].destination) }} })

\* Scenario 3: LTL 0.1554 against closed trailer 0.0824.
ConsolidationScenario ==
    [ name |-> "Shipment Consolidation",
      description |-> "Consolidate LTL shipments into full truckloads",
      comparison |->
        [ ltl_rate |-> 1554, closed_trailer_rate |-> 824, savings_per_lb |-> 1554 - 824 ],
      example |->
        [ scenario |-> "5 LTL shipments of 8,000 lbs each -> 1 full truckload of 40,000 lbs",
          ltl_cost |-> RoundHalfEven(40000 * 1554, 100),
          consolidated_cost |-> RoundHalfEven(40000 * 824, 100),
          savings |-> RoundHalfEven(40000 * (1554 - 824), 100),
          savings_pct |-> RoundHalfEven((1554 - 824) * 1000, 1554) ],
      annual_opportunity |->
        [ note |-> "Review orders to same destination within 1-2 day window for consolidation" ] ]

\* The summary loop: what each scenario adds to total_potential.
RECURSIVE TotalPotential(_)
TotalPotential(scenarios) ==
    IF scenarios = <<>> THEN 0
    ELSE (IF "annual_opportunity" \in DOMAIN scenarios[1]
             /\ "potential_savings" \in DOMAIN scenarios[1].annual_opportunity
          THEN scenarios[1].annual_opportunity.potential_savings
          ELSE IF "savings_estimate" \in DOMAIN scenarios[1]
                  /\ "annual_savings" \in DOMAIN scenarios[1].savings_estimate
          THEN scenarios[1].savings_estimate.annual_savings
          ELSE 0)
         + TotalPotential(Tail(scenarios))

\* df_wm is load_freight_data("West Memphis"): the rows of that warehouse's
\* file.
analyze_cost_savings(table, scenario) ==
    Only({ [ analysis_date |-> "2025",
             scenarios |-> scenarios,
             summary |->
               [ total_identified_savings |-> TotalPotential(scenarios),
                 data_source |-> "2025 actual freight records",
                 key_actions |->
                   << "Route Texas orders through Houston warehouse",
                      "Route West Coast orders through California warehouse",
                      "Evaluate East Coast warehouse for Southeast/Mid-Atlantic volume",
                      "Consolidate same-destination orders to reduce LTL shipments" >> ] ]
           : scenarios \in {
               (IF scenario \in {"routing_optimization", "all"}
                THEN <<RoutingScenario(table, { i \in 1..Len(table) :
                                                  table[i].warehouse = WestMemphis })>>
                ELSE <<>>)
               \o (IF scenario \in {"east_coast_warehouse", "all"}
                   THEN <<EastCoastScenario(table, { i \in 1..Len(table) :
                                                       table[i].warehouse = WestMemphis })>>
                   ELSE <<>>)
               \o (IF scenario \in {"consolidation", "all"}
                   THEN <<ConsolidationScenario>>
                   ELSE <<>>) } })

\* The rows the freight files may hold for the savings analysis.
SavingsRowPool ==
    << FreightRow(WestMemphis, <<"B","O","L","T","-","D","A","L","L","A","S"," ","T","X">>,
                  <<>>, 500, 0),
       FreightRow(WestMemphis, <<"A","c","m","e","-","A","s","h","l","a","n","d"," ","V","A">>,
                  <<Ordinal(2025, 3, 5)>>, 2000, 12000),
       FreightRow(WestMemphis, <<"A","C","M","E","-","A","U","S","T","I","N"," ","t","x">>,
                  <<Ordinal(2025, 4, 1)>>, 500, 6000),
       FreightRow(Houston, <<"A","C","M","E","-","D","A","L","L","A","S"," ","T","X">>,
                  <<Ordinal(2025, 6, 10)>>, 1000, 5000),
       FreightRow(WestMemphis, <<"B","O","L","T","-","D","A","L","L","A","S"," ","T","X">>,
                  <<Ordinal(2025, 6, 11)>>, 301, 2000),
       FreightRow(WestMemphis, <<"D","e","p","o","t"," ","1","2">>,
                  <<Ordinal(2025, 6, 12)>>, 100, 900) >>

SavingsTables ==
    { Pick(SavingsRowPool, S) :
        S \in { T \in SUBSET (1..Len(SavingsRowPool)) : Cardinality(T) <= MaxRows } }

ScenarioInputs ==
    { "all", "routing_optimization", "east_coast_warehouse", "consolidation", "ALL" }

AnalyzeCostSavings ==
    \E scenario \in ScenarioInputs :
        /\ call.op = "none"
        /\ call' = [op |-> "analyze_cost_savings", scenario |-> scenario]
        /\ result' = analyze_cost_savings(freight, scenario)
        /\ UNCHANGED <<files, maps, session>>

InitSavings ==
    /\ call = [op |-> "none"]
    /\ result = None
    /\ InitMaps
    /\ InitSession
    /\ freight \in SavingsTables
    /\ sales = <<>>

NextSavings == AnalyzeCostSavings \/ Return

SpecSavings == InitSavings /\ [][NextSavings]_vars

\* C26: every scenario an analysis reports is computed from the loaded
\* freight records: some other freight table gives the scenario different
\* figures, so none reports only constants.
EveryScenarioDependsOnFreightTable ==
    call.op = "analyze_cost_savings" =>
        \A n \in 1..Len(result.scenarios) :
            \E other \in SavingsTables :
                analyze_cost_savings(other, call.scenario).scenarios[n] # result.scenarios[n]

(***************************************************************************)
(* Chat loop: AlphaProphetCLI.chat                                         *)
(*                                                                         *)
(* A response of the hosted model is [content, stop_reason]; a block of    *)
(* its content has a type, and text or id, name and input.  frame holds    *)
(* the locals of a running chat(): pc, the loop index i, text_response,    *)
(* the response in hand, and calls, the number of messages.create calls    *)
(* made so far.                                                            *)
(***************************************************************************)

MaxHistory == 3

max_tool_rounds == 5

TextBlock(text) == [type |-> "text", text |-> text]
ToolUse(id, name, input) == [type |-> "tool_use", id |-> id, name |-> name, input |-> input]

\* s with the elements that satisfy neither test left out, in order.
RECURSIVE SelectBlocks(_, _)
SelectBlocks(content, types) ==
    IF content = <<>> THEN <<>>
    ELSE (IF content[1].type \in types THEN <<content[1]>> ELSE <<>>)
         \o SelectBlocks(Tail(content), types)

\* _serialize_content: the text and tool_use blocks, nothing else.
serialize_content(content) == SelectBlocks(content, {"text", "tool_use"})

\* json.dumps(result, indent=2): the result as text.
json_dumps(value) == [json |-> value]

\* Only the first tool call is answered.
process_tool_calls_first_only(tool_calls, bodies) ==
    [ k \in 1..(IF Len(tool_calls) > 1 THEN 1 ELSE Len(tool_calls)) |->
        [ type |-> "tool_result",
          tool_use_id |-> tool_calls[k].id,
          content |-> json_dumps(execute_tool(tool_calls[k].name, tool_calls[k].input,
                                              bodies[k]).returned) ] ]

\* bodies[k] is what running the k-th tool does.
process_tool_calls(tool_calls, bodies) ==
    [ k \in 1..Len(tool_calls) |->
        [ type |-> "tool_result",
          tool_use_id |-> tool_calls[k].id,
          content |-> json_dumps(execute_tool(tool_calls[k].name, tool_calls[k].input,
                                              bodies[k]).returned) ] ]

\* The last text block of the content, or the text so far.
RECURSIVE LastText(_, _)
LastText(content, text_response) ==
    IF content = <<>> THEN text_response
    ELSE LastText(Tail(content),
                  IF content[1].type = "text" THEN content[1].text ELSE text_response)

Fallback == <<"I couldn't generate a response. Please try rephrasing your question.">>

UserMessageInputs == { <<"T","X","?">>, <<>> }

\* What the model may answer in round i: a final text, nothing serializable,
\* a blank text with one tool request, two tool requests (one of an unknown
\* tool), a tool request cut off by max_tokens, and a tool_use stop with no
\* tool request.
ResponseInputs(i) ==
    { [ content |-> <<TextBlock(<<"o","k">>)>>, stop_reason |-> "end_turn" ],
      [ content |-> <<[type |-> "thinking"]>>, stop_reason |-> "end_turn" ],
      [ content |-> <<TextBlock(<<" ">>), ToolUse(<<"a", i>>, "compare_routing", {})>>,
        stop_reason |-> "tool_use" ],
      [ content |-> <<ToolUse(<<"a", i>>, "delete_orders", {}),
                      ToolUse(<<"b", i>>, "analyze_state", {"state"})>>,
        stop_reason |-> "tool_use" ],
      [ content |-> <<TextBlock(<<"o","k">>), ToolUse(<<"a", i>>, "compare_routing", {})>>,
        stop_reason |-> "max_tokens" ],
      [ content |-> <<TextBlock(<<"o","k">>)>>, stop_reason |-> "tool_use" ] }

ChatBodyInputs == { Returns([summary |-> "ok"]), Raises("division by zero") }

\* chat(): the user message is appended and the loop is entered.
Chat ==
    \E user_message \in UserMessageInputs :
        /\ call.op = "none"
        /\ Len(conversation_history) < MaxHistory
        /\ call' = [op |-> "chat", user_message |-> user_message]
        /\ result' = None
        /\ conversation_history' =
              Append(conversation_history, [role |-> "user", content |-> user_message])
        /\ frame' = [pc |-> "create", i |-> 0, text_response |-> <<>>, calls |-> 0]
        /\ UNCHANGED <<files, maps>>

\* One pass of the loop up to its break: the model is called with the
\* history, its serialized answer is appended and its text is kept.
CreateMessage ==
    /\ frame.pc = "create"
    /\ \E response \in ResponseInputs(frame.i) :
          /\ conversation_history' =
                Append(conversation_history,
                       [role |-> "assistant", content |-> serialize_content(response.content)])
          /\ frame' = [ pc |-> IF response.stop_reason # "tool_use" THEN "return" ELSE "tools",
                        i |-> frame.i,
                        text_response |-> LastText(response.content, frame.text_response),
                        calls |-> frame.calls + 1,
                        response |-> response ]
    /\ UNCHANGED <<call, result, files, maps>>

\* The rest of the pass: the tool calls are run, their results appended, and
\* the loop goes on while rounds are left.
ProcessToolCalls ==
    /\ frame.pc = "tools"
    /\ \E tool_calls \in {SelectBlocks(frame.response.content, {"tool_use"})} :
          \E bodies \in [1..Len(tool_calls) -> ChatBodyInputs] :
              conversation_history' =
                  Append(conversation_history,
                         [role |-> "user", content |-> process_tool_calls(tool_calls, bodies)])
    /\ frame' = [ pc |-> IF frame.i + 1 < max_tool_rounds THEN "create" ELSE "return",
                  i |-> frame.i + 1,
                  text_response |-> frame.text_response,
                  calls |-> frame.calls ]
    /\ UNCHANGED <<call, result, files, maps>>

\* After the loop: the fallback for a blank text, and the return.
ChatReturn ==
    /\ frame.pc = "return"
    /\ \E text_response \in {IF Strip(frame.text_response) = <<>> THEN Fallback
                             ELSE frame.text_response} :
          /\ result' = [returned |-> text_response]
          /\ frame' = [ pc |-> "done", i |-> frame.i, text_response |-> text_response,
                        calls |-> frame.calls ]
    /\ UNCHANGED <<call, files, maps, conversation_history>>

InitChat ==
    /\ call = [op |-> "none"]
    /\ result = None
    /\ InitMaps
    /\ InitSession
    /\ freight = <<>>
    /\ sales = <<>>

NextChat == Chat \/ CreateMessage \/ ProcessToolCalls \/ ChatReturn \/ Return

SpecChat == InitChat /\ [][NextChat]_vars

\* chat() is sequential code: each of its steps is taken once it is reached.
FairSpecChat ==
    /\ SpecChat
    /\ WF_vars(CreateMessage)
    /\ WF_vars(ProcessToolCalls)
    /\ WF_vars(ChatReturn)

\* The ids of the tool requests of an assistant message, and the ids the
\* tool results of a user message answer.
RequestedIds(message) ==
    Only({ [k \in 1..Len(uses) |-> uses[k].id]
           : uses \in {SelectBlocks(message.content, {"tool_use"})} })
AnsweredIds(message) == [k \in 1..Len(message.content) |-> message.content[k].tool_use_id]

\* The history a model call after the first is made with ends with the
\* assistant message of the round before and the results of its requests.
ToolRequestsAnswered ==
    (frame.pc = "create" /\ frame.i >= 1) =>
        Only({ /\ Len(h) >= 3
               /\ h[Len(h) - 1].role = "assistant"
               /\ h[Len(h)].role = "user"
               /\ AnsweredIds(h[Len(h)]) = RequestedIds(h[Len(h) - 1])
               : h \in {conversation_history} })

ChatIsBounded ==
    frame.pc # "idle" =>
        /\ frame.calls <= 5
        /\ frame.pc = "done" =>
              (result.returned = frame.text_response /\ result.returned # <<>>)

====
